---- MODULE Spec2Model ----
(***************************************************************************)
(* Workflow memory subsystem of Kite: the workflow repository              *)
(* (src/memory/workflow_manager.py), the embedding index                   *)
(* (src/memory/embedding_store.py) and the store they share               *)
(* (src/memory/database.py).                                               *)
(*                                                                         *)
(* Every coroutine of the repository runs on one event loop and shares one *)
(* SQLite connection.  A coroutine is suspended exactly at its awaited     *)
(* store calls, so each store statement is one atomic step and other       *)
(* coroutines may run between two statements of the same call.             *)
(*                                                                         *)
(* Conventions of the model                                                *)
(*   - a text is the sequence of its word tokens;                          *)
(*   - a comma-joined keyword string is the sequence of its fields, the    *)
(*     empty string being the one-field sequence <<"">>;                   *)
(*   - a float success_rate is the exact fraction <<num, den>>;            *)
(*   - a Python list argument that is None or [] is <<>> (both are falsy   *)
(*     wherever the code tests them);                                      *)
(*   - created_at / updated_at / started_at are not modelled, completed_at *)
(*     is modelled by whether it is set.                                   *)
(***************************************************************************)
EXTENDS Integers, Sequences, FiniteSets, TLC

VARIABLES
    workflows,    \* table workflows: row i has id i (ids are assigned by the store)
    executions,   \* table workflow_executions: row i has id i
    embeddings,   \* table embeddings: a set of rows
    pc,           \* per coroutine: the statement it is suspended before
    call,         \* per coroutine: the call it is executing and its arguments
    loc,          \* per coroutine: its local variables
    last,         \* the call that returned most recently, until the next call starts
    applied,      \* history: per workflow id, the statistics updates that have returned
    lastStored,   \* history: per embedding key, the arguments of the latest completed store
    ncalls,       \* number of calls started so far
    answers,      \* the store's answers to the next write: to its first attempt and to a retry
    conn,         \* the connection: what is committed, and whether a transaction is open
    manager,      \* the AsyncTaskManager, its worker and the coroutines handed to it
    orchestrator, \* the Orchestrator and its process_message coroutines
    sender,       \* the AsyncSender and the coroutines sending through it
    limiter,      \* the RateLimiter
    state_manager,\* the StateManager
    now           \* the clock, in ticks

\* the workflow memory and its callers
memoryVars == <<workflows, executions, embeddings, pc, call, loc, last,
                applied, lastStored, ncalls, answers, conn>>

\* the objects of src/core, src/telegram and src/utils
coreVars == <<manager, orchestrator, sender, limiter, state_manager, now>>

vars == <<workflows, executions, embeddings, pc, call, loc, last,
          applied, lastStored, ncalls, answers, conn, coreVars>>

----------------------------------------------------------------------------
(* Bounds of the model *)

MaxWorkflows == 2
MaxCalls == 3

Procs == {1, 2}

Min(a, b) == IF a <= b THEN a ELSE b

Range(s) == {s[i] : i \in DOMAIN s}

----------------------------------------------------------------------------
(* Values *)

NULL == [null |-> TRUE]

JsonDumps(data) == [json |-> data]

JsonLoads(data) == IF data = NULL THEN NULL ELSE data.json

Users == {1, 2}

Categories == {"linkedin", "youtube"}

NoCategory == ""

TerminalStatuses == {"completed", "failed"}

Statuses == {"pending", "completed", "failed"}

----------------------------------------------------------------------------
(* KeywordExtractor *)

STOPWORDS ==
    {"a", "an", "the", "and", "or", "but", "is", "are", "was", "were",
     "be", "been", "being", "have", "has", "had", "do", "does", "did",
     "will", "would", "could", "should", "may", "might", "must", "shall",
     "can", "to", "of", "in", "for", "on", "with", "at", "by", "from",
     "as", "into", "through", "during", "before", "after", "above",
     "below", "between", "under", "again", "further", "then", "once",
     "here", "there", "when", "where", "why", "how", "all", "each",
     "few", "more", "most", "other", "some", "such", "no", "nor", "not",
     "only", "own", "same", "so", "than", "too", "very", "just", "also",
     "now", "this", "that", "these", "those", "i", "me", "my", "we", "our",
     "you", "your", "he", "him", "his", "she", "her", "it", "its", "they",
     "them", "their", "what", "which", "who", "whom", "please",
     "thanks", "thank", "sorry", "help", "make", "want", "like", "know",
     "think", "take", "see", "come", "use", "find", "give", "tell"}

\* str.lower() on the tokens of the model's vocabulary
Lower(w) ==
    CASE w = "Connect" -> "connect"
      [] w = "The" -> "the"
      [] w = "PM" -> "pm"
      [] w = "Task" -> "task"
      [] OTHER -> w

\* tokens of the vocabulary that hold a character outside [a-zA-Z]
NonAlphabetic == {"v2", "2024"}

\* re.findall(r'\b[a-zA-Z]{2,}\b', text.lower()): the purely alphabetic tokens
\* of at least two letters, in text order
FindWords(text) ==
    SelectSeq([i \in DOMAIN text |-> Lower(text[i])],
              LAMBDA w : w \notin NonAlphabetic /\ Len(w) >= 2)

CountOf(w, s) == Cardinality({i \in DOMAIN s : s[i] = w})

\* the distinct elements of s in order of first occurrence (the insertion
\* order of Counter(keywords))
RECURSIVE FirstOccurrences(_)
FirstOccurrences(s) ==
    IF s = <<>> THEN <<>>
    ELSE LET r == FirstOccurrences(SubSeq(s, 1, Len(s) - 1))
             x == s[Len(s)]
         IN IF x \in Range(r) THEN r ELSE Append(r, x)

\* stable insertion of x into d, which is sorted by count descending
RECURSIVE InsertByCount(_, _, _)
InsertByCount(x, d, s) ==
    IF d = <<>> THEN <<x>>
    ELSE IF CountOf(d[Len(d)], s) >= CountOf(x, s) THEN Append(d, x)
    ELSE Append(InsertByCount(x, SubSeq(d, 1, Len(d) - 1), s), d[Len(d)])

\* faulty variant: the keys in insertion order, whatever their counts
MostCommon_Unranked(d, s) == d

\* Counter.most_common: by count descending, equal counts in insertion order
RECURSIVE MostCommon(_, _)
MostCommon(d, s) ==
    IF d = <<>> THEN <<>>
    ELSE InsertByCount(d[Len(d)], MostCommon(SubSeq(d, 1, Len(d) - 1), s), s)

\* faulty variant: the words are ranked without the stop-word and length filter
extract_Unfiltered(text, max_keywords) ==
    LET words == FindWords(text)
        ranked == MostCommon(FirstOccurrences(words), words)
    IN SubSeq(ranked, 1, Min(max_keywords, Len(ranked)))

\* KeywordExtractor.extract of an extractor built with max_keywords
extract(text, max_keywords) ==
    LET words == FindWords(text)
        keywords == SelectSeq(words, LAMBDA w : w \notin STOPWORDS /\ Len(w) > 2)
        ranked == MostCommon(FirstOccurrences(keywords), keywords)
    IN SubSeq(ranked, 1, Min(max_keywords, Len(ranked)))

\* ",".join(keywords)
extract_as_string(text, max_keywords) ==
    LET keywords == extract(text, max_keywords)
    IN IF keywords = <<>> THEN <<"">> ELSE keywords

\* WorkflowManager.keyword_extractor = KeywordExtractor(max_keywords=15)
ManagerMaxKeywords == 15

----------------------------------------------------------------------------
(* Inputs *)

PromptConnect == <<"Connect", "with", "a", "product", "manager">>
PromptMessage == <<"message", "the", "founder", "message">>
PromptStop == <<"to", "the", "PM", "v2">>

Prompts == {PromptConnect, PromptMessage, PromptStop}

\* a prompt with sixteen keywords
PromptLong ==
    <<"alpha", "bravo", "charlie", "delta", "echo", "foxtrot", "golf", "hotel",
      "india", "juliet", "kilo", "lima", "mike", "november", "oscar", "papa">>

StepsA == <<"open_profile", "click_connect">>
StepsB == <<"open_profile", "send_message">>

\* the argument tuples record_workflow is called with
WorkflowInputs ==
    { [user_id |-> 1, category |-> "linkedin", intent_type |-> "connection_request",
       original_prompt |-> PromptConnect, summary |-> <<"sent", "request">>,
       steps |-> StepsA, parameters |-> <<>>, is_template |-> FALSE, rating |-> 5],
      [user_id |-> 1, category |-> "linkedin", intent_type |-> "message",
       original_prompt |-> PromptMessage, summary |-> <<"message", "sent">>,
       steps |-> StepsB, parameters |-> <<>>, is_template |-> FALSE, rating |-> 4],
      [user_id |-> 2, category |-> "youtube", intent_type |-> "connection_request",
       original_prompt |-> PromptStop, summary |-> <<"done">>,
       steps |-> <<>>, parameters |-> <<>>, is_template |-> TRUE, rating |-> 5] }

\* ids a caller may pass: the existing ones and one that never exists
WorkflowIds == 1 .. (MaxWorkflows + 1)

----------------------------------------------------------------------------
(* Store *)

WorkflowIdsInStore == 1 .. Len(workflows)

\* the store executes both attempts of a write
StoreWorks == <<TRUE, TRUE>>

\* the store fails a write once, or for good (a constraint violation, an I/O
\* error)
StoreResults == {StoreWorks, <<FALSE, TRUE>>, <<FALSE, FALSE>>}

\* faulty variant: a statement that failed is issued a second time
Execute_Retrying(results) ==
    IF results[1] THEN [ok |-> TRUE, attempts |-> 1]
    ELSE [ok |-> results[2], attempts |-> 2]

\* Database.execute / Database.insert: the statement is issued once and an
\* exception of the connection is not caught
Execute(results) == [ok |-> results[1], attempts |-> 1]

\* the contents of the three tables
Snapshot(w, e, m) == [workflows |-> w, executions |-> e, embeddings |-> m]

\* the one aiosqlite connection of Database.get_connection, opened with the
\* sqlite3 default isolation_level: disk is what has been committed, open is
\* whether a transaction is open, scope is the coroutine inside a
\* Database.transaction block (0: none) and entered the table contents when
\* it entered
NoConnection ==
    [disk |-> Snapshot(<<>>, <<>>, {}), open |-> FALSE, scope |-> 0,
     entered |-> Snapshot(<<>>, <<>>, {})]

\* Database.execute of an INSERT, UPDATE or DELETE: sqlite3 begins a
\* transaction before the statement unless one is open, and execute does not
\* commit; the transaction stays open when the statement raises
Executed == [conn EXCEPT !.open = TRUE]

\* Database.insert: the statement, then conn.commit(), which commits every
\* pending write of the connection
Inserted(w, e, m) == [conn EXCEPT !.disk = Snapshot(w, e, m), !.open = FALSE]

\* main.py builds WorkflowManager(db, embedding_store)
EmbeddingStoreConfigured == TRUE

\* SELECT * FROM workflows WHERE id = ?  (fetchone: the row, or None)
NotFound == [found |-> FALSE]

FetchWorkflow(workflow_id) ==
    IF workflow_id \in WorkflowIdsInStore
    THEN [found |-> TRUE, row |-> workflows[workflow_id]]
    ELSE NotFound

\* faulty variant: the first record is not counted as a success
NewWorkflowRow_Unconfirmed(id, input) ==
    [id |-> id,
     user_id |-> input.user_id,
     category |-> input.category,
     intent_type |-> input.intent_type,
     keywords |-> extract_as_string(input.original_prompt, ManagerMaxKeywords),
     original_prompt |-> input.original_prompt,
     summary |-> input.summary,
     steps |-> JsonDumps(input.steps),
     parameters |-> JsonDumps(input.parameters),
     success_rate |-> <<0, 1>>,
     success_count |-> 0,
     total_count |-> 1,
     rating |-> input.rating,
     is_template |-> IF input.is_template THEN 1 ELSE 0]

\* the row record_workflow inserts
NewWorkflowRow(id, input) ==
    [id |-> id,
     user_id |-> input.user_id,
     category |-> input.category,
     intent_type |-> input.intent_type,
     keywords |-> extract_as_string(input.original_prompt, ManagerMaxKeywords),
     original_prompt |-> input.original_prompt,
     summary |-> input.summary,
     steps |-> JsonDumps(input.steps),
     parameters |-> JsonDumps(input.parameters),
     success_rate |-> <<1, 1>>,
     success_count |-> 1,
     total_count |-> 1,
     rating |-> input.rating,
     is_template |-> IF input.is_template THEN 1 ELSE 0]

\* faulty variant: every execution is counted as a success
NewSuccessCount_EveryCall(workflow, was_successful) ==
    workflow.success_count + 1

\* the values update_workflow_success computes from the row it has read
NewSuccessCount(workflow, was_successful) ==
    workflow.success_count + (IF was_successful THEN 1 ELSE 0)

NewTotalCount(workflow) == workflow.total_count + 1

\* faulty variant: the rate is taken over the total that was read
NewSuccessRate_OldTotal(success_count, total_count) ==
    <<success_count, total_count - 1>>

\* success_count / total_count
NewSuccessRate(success_count, total_count) == <<success_count, total_count>>

\* UPDATE workflows SET success_count = ?, total_count = ?, success_rate = ?
\* [, steps = ?] WHERE id = ?  applied to the stored row `row`, with the
\* parameters computed from `workflow`, the row read by the earlier SELECT
UpdatedWorkflowRow(row, workflow, was_successful, new_steps) ==
    LET success_count == NewSuccessCount(workflow, was_successful)
        total_count == NewTotalCount(workflow)
        counted == [row EXCEPT !.success_count = success_count,
                               !.total_count = total_count,
                               !.success_rate = NewSuccessRate(success_count, total_count)]
    IN IF new_steps # <<>>
       THEN [counted EXCEPT !.steps = JsonDumps(new_steps)]
       ELSE counted

\* faulty variant: every status triggers the statistics update
IsTerminal_AnyStatus(status) == TRUE

\* status in ["completed", "failed"]
IsTerminal(status) == status \in TerminalStatuses

\* the row record_execution inserts
NewExecutionRow(id, workflow_id, user_id, status, step_results) ==
    [id |-> id,
     workflow_id |-> workflow_id,
     user_id |-> user_id,
     status |-> status,
     step_results |-> IF step_results # <<>> THEN JsonDumps(step_results) ELSE NULL,
     error_message |-> NULL,
     completed_at |-> FALSE]

----------------------------------------------------------------------------
(* Embedder and embedding table *)

Vectors == {0, 1, 2}

\* EmbeddingStore.embed_text: the embedder is a deterministic function of the text
embed_text(text) ==
    LET words == Range(FindWords(text))
    IN IF "connect" \in words THEN 0
       ELSE IF "message" \in words THEN 1
       ELSE 2

Pickle(vector) == [pickle |-> vector]

Unpickle(blob) == blob.pickle

Abs(x) == IF x < 0 THEN -x ELSE x

\* 1 - (embedding <=> query), in hundredths
Similarity(embedding_blob, query_blob) ==
    100 - 40 * Abs(Unpickle(embedding_blob) - Unpickle(query_blob))

\* faulty variant: the conflict target is content_id alone
EmbeddingKey_ContentIdOnly(r) == <<r.content_id, "">>

\* the conflict target of the upsert: (content_id, table_name)
EmbeddingKey(r) == <<r.content_id, r.table_name>>

\* faulty variant: a plain INSERT, with no ON CONFLICT clause and no unique index
UpsertEmbedding_InsertOnly(table, row) == table \cup {row}

\* INSERT INTO embeddings ... ON CONFLICT(content_id, table_name) DO UPDATE SET
\* content, embedding, metadata = excluded.*
UpsertEmbedding(table, row) ==
    {r \in table : EmbeddingKey(r) # EmbeddingKey(row)} \cup {row}

NoVector == 3

\* the metadata argument: None, or a dict given as the sequence of its items
NoMetadata == [given |-> FALSE, map |-> <<>>]

Metadata(map) == [given |-> TRUE, map |-> map]

\* Python's truth value of the metadata argument: None and {} are false
Truthy(metadata) == metadata.given /\ metadata.map # <<>>

\* the row store_embedding writes; embedding = NoVector stands for None
EmbeddingRow(content_id, table_name, content, embedding, metadata) ==
    [content_id |-> content_id,
     table_name |-> table_name,
     content |-> content,
     embedding |-> Pickle(IF embedding = NoVector THEN embed_text(content) ELSE embedding),
     metadata |-> IF Truthy(metadata) THEN JsonDumps(metadata.map) ELSE NULL]

\* the metadata record_workflow passes to store_embedding
WorkflowMetadata(input) ==
    Metadata(<<input.category, input.intent_type,
               extract_as_string(input.original_prompt, ManagerMaxKeywords)>>)

\* the table_name values callers pass: the workflows table, and a name that is
\* also a workflow category (search_keyword compares workflows.category with
\* table_name)
Tables == {"workflows", "linkedin"}

\* the table record_execution inserts into
ExecutionsTable == "workflow_executions"

EmbeddingKeys == WorkflowIds \X (Tables \cup {ExecutionsTable})

NotStored == [stored |-> FALSE, writes |-> 0]

\* history: the arguments of the store_embedding call that has completed for
\* a key that `before` describes, and the number of stores since it was absent
StoredArgs(before, content, embedding, metadata) ==
    [stored |-> TRUE, writes |-> before.writes + 1, content |-> content,
     embedding |-> embedding, metadata |-> metadata]

----------------------------------------------------------------------------
(* Objects of src/core, src/telegram and src/utils before their construction *)

NoManager == [constructed |-> FALSE]

NoOrchestrator == [constructed |-> FALSE]

NoSender == [constructed |-> FALSE]

NoLimiter == [constructed |-> FALSE]

NoStateManager == [constructed |-> FALSE]

----------------------------------------------------------------------------
(* Coroutines *)

NoCall ==
    [op |-> "none", workflow_id |-> 0, user_id |-> 0, was_successful |-> FALSE,
     new_steps |-> <<>>, status |-> "", input |-> <<>>]

NoLoc == [workflow |-> NotFound, workflow_id |-> 0, execution_id |-> 0]

NoLast == [op |-> "none", workflow_id |-> 0, outcome |-> "none", value |-> 0]

\* a lifecycle call has returned value, or raised it
Outcome(op, workflow_id, outcome, value) ==
    [op |-> op, workflow_id |-> workflow_id, outcome |-> outcome, value |-> value]

Init ==
    /\ workflows = <<>>
    /\ executions = <<>>
    /\ embeddings = {}
    /\ pc = [p \in Procs |-> "idle"]
    /\ call = [p \in Procs |-> NoCall]
    /\ loc = [p \in Procs |-> NoLoc]
    /\ last = NoLast
    /\ applied = [w \in WorkflowIds |-> [n |-> 0, k |-> 0]]
    /\ lastStored = [k \in EmbeddingKeys |-> NotStored]
    /\ ncalls = 0
    /\ answers = StoreWorks
    /\ conn = NoConnection
    /\ manager = NoManager
    /\ orchestrator = NoOrchestrator
    /\ sender = NoSender
    /\ limiter = NoLimiter
    /\ state_manager = NoStateManager
    /\ now = 0

RetrievalOps ==
    {"find_similar_workflows", "search_similar", "hybrid_search", "get_best_workflow"}

\* a coroutine that is not running starts a call
Starts(p) ==
    /\ pc[p] = "idle"
    /\ last.op \notin RetrievalOps
    /\ ncalls < MaxCalls
    /\ ncalls' = ncalls + 1

\* a caller that holds no result starts a retrieval call: they read the store
\* and change nothing
Retrieves ==
    /\ \A p \in Procs : pc[p] = "idle"
    /\ last = NoLast
    /\ UNCHANGED <<workflows, executions, embeddings, pc, call, loc, applied,
                   lastStored, ncalls, answers, conn, coreVars>>

\* the caller of the call that returned last has taken its result
Resume ==
    /\ \A p \in Procs : pc[p] = "idle"
    /\ last # NoLast
    /\ last' = NoLast
    /\ UNCHANGED <<workflows, executions, embeddings, pc, call, loc, applied,
                   lastStored, ncalls, answers, conn, coreVars>>

\* coroutine p is suspended before statement label
Suspends(p, label, c, l) ==
    /\ answers' = answers
    /\ pc' = [pc EXCEPT ![p] = label]
    /\ call' = [call EXCEPT ![p] = c]
    /\ loc' = [loc EXCEPT ![p] = l]

\* the call of coroutine p returns (or raises)
Returns(p, op, workflow_id, outcome, value) ==
    /\ answers' = answers
    /\ pc' = [pc EXCEPT ![p] = "idle"]
    /\ call' = [call EXCEPT ![p] = NoCall]
    /\ loc' = [loc EXCEPT ![p] = NoLoc]
    /\ last' = Outcome(op, workflow_id, outcome, value)

\* the write statement of coroutine p has failed: the exception of the
\* connection ends the call, which has no except clause
Raises(p, op, workflow_id) ==
    /\ answers' = answers
    /\ pc' = [pc EXCEPT ![p] = "idle"]
    /\ call' = [call EXCEPT ![p] = NoCall]
    /\ loc' = [loc EXCEPT ![p] = NoLoc]
    /\ last' = [op |-> op, workflow_id |-> workflow_id, outcome |-> "error",
                value |-> "StoreError", attempts |-> Execute(answers).attempts]

----------------------------------------------------------------------------
(* WorkflowManager.record_workflow *)

\* keyword extraction and INSERT INTO workflows (db.insert commits)
RecordWorkflowInsert(p, input) ==
    /\ Starts(p)
    /\ Len(workflows) < MaxWorkflows
    /\ IF ~Execute(answers).ok
       THEN /\ Raises(p, "record_workflow", 0)
            /\ UNCHANGED workflows
       ELSE LET workflow_id == Len(workflows) + 1
            IN /\ workflows' = Append(workflows, NewWorkflowRow(workflow_id, input))
               /\ IF EmbeddingStoreConfigured
                  THEN /\ Suspends(p, "rw_embed",
                                   [NoCall EXCEPT !.op = "record_workflow",
                                                  !.input = input],
                                   [NoLoc EXCEPT !.workflow_id = workflow_id])
                       /\ last' = NoLast
                  ELSE Returns(p, "record_workflow", workflow_id, "ok", workflow_id)
    /\ UNCHANGED <<executions, embeddings, applied, lastStored>>
    /\ UNCHANGED coreVars
    /\ conn' = IF workflows' # workflows
               THEN Inserted(workflows', executions', embeddings') ELSE Executed

\* store_embedding(workflow_id, "workflows", prompt + " " + summary, metadata)
\* and the return; the embedder raises when embedder_ok is FALSE
RecordWorkflowEmbed(p, embedder_ok) ==
    /\ pc[p] = "rw_embed"
    /\ LET input == call[p].input
           workflow_id == loc[p].workflow_id
           content == input.original_prompt \o input.summary
           metadata == WorkflowMetadata(input)
       IN IF ~embedder_ok
          THEN /\ Returns(p, "record_workflow", workflow_id, "error", "EmbedderError")
               /\ UNCHANGED <<embeddings, lastStored>>
          ELSE IF ~Execute(answers).ok
          THEN /\ Raises(p, "record_workflow", workflow_id)
               /\ UNCHANGED <<embeddings, lastStored>>
          ELSE /\ embeddings' = UpsertEmbedding(embeddings,
                     EmbeddingRow(workflow_id, "workflows", content, NoVector, metadata))
               /\ lastStored' = [lastStored EXCEPT ![<<workflow_id, "workflows">>] =
                                    StoredArgs(@, content, NoVector, metadata)]
               /\ Returns(p, "record_workflow", workflow_id, "ok", workflow_id)
    /\ UNCHANGED <<workflows, executions, applied, ncalls>>
    /\ UNCHANGED coreVars
    /\ conn' = IF ~embedder_ok THEN conn ELSE Executed

----------------------------------------------------------------------------
(* WorkflowManager.update_workflow_success *)

\* history: one more statistics update of workflow_id has returned
Applied(workflow_id, was_successful) ==
    [applied EXCEPT ![workflow_id] =
        [n |-> @.n + 1, k |-> @.k + (IF was_successful THEN 1 ELSE 0)]]

\* the SELECT; an unknown id is logged and the call returns
UpdateWorkflowSuccessSelect(p, workflow_id, was_successful, new_steps) ==
    /\ Starts(p)
    /\ LET workflow == FetchWorkflow(workflow_id)
       IN IF workflow.found
          THEN /\ Suspends(p, "uws_update",
                           [NoCall EXCEPT !.op = "update_workflow_success",
                                          !.workflow_id = workflow_id,
                                          !.was_successful = was_successful,
                                          !.new_steps = new_steps],
                           [NoLoc EXCEPT !.workflow = workflow])
               /\ last' = NoLast
          ELSE Returns(p, "update_workflow_success", workflow_id, "ok", 0)
    /\ UNCHANGED <<workflows, executions, embeddings, applied, lastStored>>
    /\ UNCHANGED coreVars
    /\ conn' = conn

\* the UPDATE (db.execute) and the return
UpdateWorkflowSuccessUpdate(p) ==
    /\ pc[p] = "uws_update"
    /\ LET workflow_id == call[p].workflow_id
       IN IF ~Execute(answers).ok
          THEN /\ Raises(p, "update_workflow_success", workflow_id)
               /\ UNCHANGED <<workflows, applied>>
          ELSE /\ workflows' = [workflows EXCEPT ![workflow_id] =
                       UpdatedWorkflowRow(@, loc[p].workflow.row,
                                          call[p].was_successful, call[p].new_steps)]
               /\ applied' = Applied(workflow_id, call[p].was_successful)
               /\ Returns(p, "update_workflow_success", workflow_id, "ok", 0)
    /\ UNCHANGED <<executions, embeddings, lastStored, ncalls>>
    /\ UNCHANGED coreVars
    /\ conn' = Executed

----------------------------------------------------------------------------
(* WorkflowManager.record_execution *)

\* INSERT INTO workflow_executions (db.insert commits).  The connection sets
\* PRAGMA foreign_keys = ON; the schema (database/schema.sql) decides whether
\* workflow_id is a declared foreign key.  When it is (fk_declared), an
\* unknown workflow_id makes the INSERT fail and the error reaches the caller.
RecordExecutionInsert(p, workflow_id, user_id, status, step_results, fk_declared) ==
    /\ Starts(p)
    /\ IF ~Execute(answers).ok
       THEN /\ Raises(p, "record_execution", workflow_id)
            /\ UNCHANGED executions
       ELSE IF fk_declared /\ workflow_id \notin WorkflowIdsInStore
       THEN /\ Returns(p, "record_execution", workflow_id, "error", "IntegrityError")
            /\ UNCHANGED executions
       ELSE LET execution_id == Len(executions) + 1
            IN /\ executions' = Append(executions,
                      NewExecutionRow(execution_id, workflow_id, user_id, status,
                                      step_results))
               /\ IF IsTerminal(status)
                  THEN /\ Suspends(p, "re_select",
                                   [NoCall EXCEPT !.op = "record_execution",
                                                  !.workflow_id = workflow_id,
                                                  !.user_id = user_id,
                                                  !.status = status,
                                                  !.was_successful = (status = "completed"),
                                                  !.new_steps = step_results],
                                   [NoLoc EXCEPT !.execution_id = execution_id])
                       /\ last' = NoLast
                  ELSE Returns(p, "record_execution", workflow_id, "ok", execution_id)
    /\ UNCHANGED <<workflows, embeddings, applied, lastStored>>
    /\ UNCHANGED coreVars
    /\ conn' = IF executions' # executions
               THEN Inserted(workflows', executions', embeddings') ELSE Executed

\* update_workflow_success(workflow_id, was_successful, step_results): the SELECT
RecordExecutionSelect(p) ==
    /\ pc[p] = "re_select"
    /\ LET workflow == FetchWorkflow(call[p].workflow_id)
       IN IF workflow.found
          THEN /\ Suspends(p, "re_update", call[p], [loc[p] EXCEPT !.workflow = workflow])
               /\ last' = last
          ELSE IF call[p].was_successful
               THEN /\ Suspends(p, "re_complete", call[p], loc[p])
                    /\ last' = last
               ELSE Returns(p, "record_execution", call[p].workflow_id, "ok",
                            loc[p].execution_id)
    /\ UNCHANGED <<workflows, executions, embeddings, applied, lastStored,
                   ncalls>>
    /\ UNCHANGED coreVars
    /\ conn' = conn

\* update_workflow_success: the UPDATE; a failed execution then returns
RecordExecutionUpdate(p) ==
    /\ pc[p] = "re_update"
    /\ LET workflow_id == call[p].workflow_id
       IN IF ~Execute(answers).ok
          THEN /\ Raises(p, "record_execution", workflow_id)
               /\ UNCHANGED <<workflows, applied>>
          ELSE /\ workflows' = [workflows EXCEPT ![workflow_id] =
                       UpdatedWorkflowRow(@, loc[p].workflow.row,
                                          call[p].was_successful, call[p].new_steps)]
               /\ applied' = Applied(workflow_id, call[p].was_successful)
               /\ IF call[p].was_successful
                  THEN /\ Suspends(p, "re_complete", call[p], loc[p])
                       /\ last' = last
                  ELSE Returns(p, "record_execution", workflow_id, "ok",
                               loc[p].execution_id)
    /\ UNCHANGED <<executions, embeddings, lastStored, ncalls>>
    /\ UNCHANGED coreVars
    /\ conn' = Executed

\* UPDATE workflow_executions SET completed_at = CURRENT_TIMESTAMP WHERE id = ?
RecordExecutionComplete(p) ==
    /\ pc[p] = "re_complete"
    /\ IF ~Execute(answers).ok
       THEN /\ Raises(p, "record_execution", call[p].workflow_id)
            /\ UNCHANGED executions
       ELSE /\ executions' =
                  [executions EXCEPT ![loc[p].execution_id].completed_at = TRUE]
            /\ Returns(p, "record_execution", call[p].workflow_id, "ok",
                       loc[p].execution_id)
    /\ UNCHANGED <<workflows, embeddings, applied, lastStored, ncalls>>
    /\ UNCHANGED coreVars
    /\ conn' = Executed

----------------------------------------------------------------------------
(* WorkflowManager.convert_to_template *)

\* faulty variant: the WHERE clause names the owner only
TemplateWhere_AnyId(row, workflow_id, user_id) == row.user_id = user_id

\* WHERE id = ? AND user_id = ?
TemplateWhere(row, workflow_id, user_id) ==
    row.id = workflow_id /\ row.user_id = user_id

\* UPDATE workflows SET is_template = 1 WHERE id = ? AND user_id = ?;
\* returns rowcount > 0
ConvertToTemplate(p, workflow_id, user_id) ==
    /\ Starts(p)
    /\ LET matches == {w \in WorkflowIdsInStore :
                          TemplateWhere(workflows[w], workflow_id, user_id)}
       IN IF ~Execute(answers).ok
          THEN /\ Raises(p, "convert_to_template", workflow_id)
               /\ UNCHANGED workflows
          ELSE /\ workflows' = [w \in WorkflowIdsInStore |->
                                   IF w \in matches
                                   THEN [workflows[w] EXCEPT !.is_template = 1]
                                   ELSE workflows[w]]
               /\ Returns(p, "convert_to_template", workflow_id, "ok", matches # {})
    /\ UNCHANGED <<executions, embeddings, applied, lastStored>>
    /\ UNCHANGED coreVars
    /\ conn' = Executed

----------------------------------------------------------------------------
(* EmbeddingStore: store_embedding, delete_embeddings *)

\* embedding (when none is given) and the upsert; the embedder raises when
\* it is called and embedder_ok is FALSE
StoreEmbedding(p, content_id, table_name, content, embedding, metadata, embedder_ok) ==
    /\ Starts(p)
    /\ IF embedding = NoVector /\ ~embedder_ok
       THEN /\ Returns(p, "store_embedding", content_id, "error", "EmbedderError")
            /\ UNCHANGED <<embeddings, lastStored>>
       ELSE IF ~Execute(answers).ok
       THEN /\ Raises(p, "store_embedding", content_id)
            /\ UNCHANGED <<embeddings, lastStored>>
       ELSE /\ embeddings' = UpsertEmbedding(embeddings,
                  EmbeddingRow(content_id, table_name, content, embedding, metadata))
            /\ lastStored' = [lastStored EXCEPT ![<<content_id, table_name>>] =
                                 StoredArgs(@, content, embedding, metadata)]
            /\ Returns(p, "store_embedding", content_id, "ok", 0)
    /\ UNCHANGED <<workflows, executions, applied>>
    /\ UNCHANGED coreVars
    /\ conn' = IF embedding = NoVector /\ ~embedder_ok THEN conn ELSE Executed

\* store_embedding run by concurrent coroutines: with no embedding given the
\* call is suspended in "await self.embed_text(content)" before its upsert
StoreEmbeddingEmbed(p, content_id, table_name, content, embedding, metadata, embedder_ok) ==
    /\ Starts(p)
    /\ embedding = NoVector
    /\ IF ~embedder_ok
       THEN Returns(p, "store_embedding", content_id, "error", "EmbedderError")
       ELSE /\ Suspends(p, "se_upsert",
                        [NoCall EXCEPT !.op = "store_embedding",
                                       !.input = [content_id |-> content_id,
                                                  table_name |-> table_name,
                                                  content |-> content,
                                                  embedding |-> embed_text(content),
                                                  metadata |-> metadata]],
                        NoLoc)
            /\ last' = NoLast
    /\ UNCHANGED <<workflows, executions, embeddings, applied, lastStored>>
    /\ UNCHANGED coreVars
    /\ conn' = conn

\* the upsert of a suspended store_embedding call, and its return
StoreEmbeddingUpsert(p) ==
    /\ pc[p] = "se_upsert"
    /\ LET a == call[p].input
       IN IF ~Execute(answers).ok
          THEN /\ Raises(p, "store_embedding", a.content_id)
               /\ UNCHANGED <<embeddings, lastStored>>
          ELSE /\ embeddings' = UpsertEmbedding(embeddings,
                     EmbeddingRow(a.content_id, a.table_name, a.content, a.embedding,
                                  a.metadata))
               /\ lastStored' = [lastStored EXCEPT ![<<a.content_id, a.table_name>>] =
                                    StoredArgs(@, a.content, NoVector, a.metadata)]
               /\ Returns(p, "store_embedding", a.content_id, "ok", 0)
    /\ UNCHANGED <<workflows, executions, applied, ncalls>>
    /\ UNCHANGED coreVars
    /\ conn' = Executed

\* DELETE FROM embeddings WHERE content_id = ? AND table_name = ?
DeleteEmbeddings(p, content_id, table_name) ==
    /\ Starts(p)
    /\ IF ~Execute(answers).ok
       THEN /\ Raises(p, "delete_embeddings", content_id)
            /\ UNCHANGED <<embeddings, lastStored>>
       ELSE /\ embeddings' =
                  {r \in embeddings : EmbeddingKey(r) # <<content_id, table_name>>}
            /\ lastStored' =
                  [lastStored EXCEPT ![<<content_id, table_name>>] = NotStored]
            /\ Returns(p, "delete_embeddings", content_id, "ok", 0)
    /\ UNCHANGED <<workflows, executions, applied>>
    /\ UNCHANGED coreVars
    /\ conn' = Executed

\* (content_id, table_name) IN (SELECT id, 'workflows' FROM workflows)
CleanupKeeps(r) ==
    r.table_name = "workflows" /\ r.content_id \in WorkflowIdsInStore

\* EmbeddingStore.cleanup_orphaned_embeddings: one DELETE
CleanupOrphanedEmbeddings(p) ==
    /\ Starts(p)
    /\ IF ~Execute(answers).ok
       THEN /\ Raises(p, "cleanup_orphaned_embeddings", 0)
            /\ UNCHANGED <<embeddings, lastStored>>
       ELSE /\ embeddings' = {r \in embeddings : CleanupKeeps(r)}
            /\ lastStored' =
                  [k \in EmbeddingKeys |->
                      IF \E r \in embeddings : EmbeddingKey(r) = k /\ ~CleanupKeeps(r)
                      THEN NotStored ELSE lastStored[k]]
            /\ Returns(p, "cleanup_orphaned_embeddings", 0, "ok", 0)
    /\ UNCHANGED <<workflows, executions, applied>>
    /\ UNCHANGED coreVars
    /\ conn' = Executed

----------------------------------------------------------------------------
(* Database: close, transaction *)

\* Database.close, and the connection the next call opens: closing does not
\* commit, so the tables are as they were last committed
CloseConnection ==
    /\ \A p \in Procs : pc[p] = "idle"
    /\ last.op \notin RetrievalOps
    /\ conn.scope = 0
    /\ workflows' = conn.disk.workflows
    /\ executions' = conn.disk.executions
    /\ embeddings' = conn.disk.embeddings
    /\ UNCHANGED coreVars
    /\ conn' = [conn EXCEPT !.open = FALSE]
    /\ last' = Outcome("close", 0, "ok", 0)
    /\ UNCHANGED <<pc, call, loc, applied, lastStored, ncalls, answers>>

\* async with db.transaction(): conn.execute("BEGIN TRANSACTION").  The
\* statement raises when a transaction is open; the except clause then rolls
\* back and re-raises
TransactionEnter(p) ==
    /\ Starts(p)
    /\ conn.scope = 0
    /\ IF conn.open
       THEN /\ workflows' = conn.disk.workflows
            /\ executions' = conn.disk.executions
            /\ embeddings' = conn.disk.embeddings
            /\ conn' = [conn EXCEPT !.open = FALSE]
            /\ Returns(p, "transaction", 0, "error", "OperationalError")
       ELSE /\ UNCHANGED <<workflows, executions, embeddings>>
            /\ conn' = [conn EXCEPT !.open = TRUE, !.scope = p,
                                    !.entered = Snapshot(workflows, executions, embeddings)]
            /\ Returns(p, "transaction", 0, "ok", "entered")
    /\ UNCHANGED <<applied, lastStored, coreVars>>

\* the end of the block: conn.commit() when the body has completed,
\* conn.rollback() and re-raise when it has raised
TransactionExit(p, body_raised) ==
    /\ conn.scope = p
    /\ pc[p] = "idle"
    /\ last.op \notin RetrievalOps
    /\ IF body_raised
       THEN /\ workflows' = conn.disk.workflows
            /\ executions' = conn.disk.executions
            /\ embeddings' = conn.disk.embeddings
            /\ conn' = [conn EXCEPT !.open = FALSE, !.scope = 0]
            /\ last' = Outcome("transaction", 0, "error", "BodyError")
       ELSE /\ UNCHANGED <<workflows, executions, embeddings>>
            /\ conn' = [conn EXCEPT !.disk = Snapshot(workflows, executions, embeddings),
                                    !.open = FALSE, !.scope = 0]
            /\ last' = Outcome("transaction", 0, "ok", "committed")
    /\ UNCHANGED <<pc, call, loc, applied, lastStored, ncalls, answers, coreVars>>

----------------------------------------------------------------------------
(* Queries *)

\* the orders in which a SELECT ... ORDER BY may return the rows of S: every
\* arrangement in which no row precedes one that sorts strictly before it
\* (rows with equal sort keys come in an order the store chooses)
Orderings(S, Before(_, _)) ==
    {s \in [1 .. Cardinality(S) -> S] :
        /\ \A i, j \in DOMAIN s : i # j => s[i] # s[j]
        /\ \A i, j \in DOMAIN s : i < j => ~Before(s[j], s[i])}

\* LIMIT n, and Python's s[:n], for n >= 0
Prefix(s, n) == SubSeq(s, 1, Min(n, Len(s)))

\* threshold: float = 0.5, in hundredths
DefaultThreshold == 50

\* the row search_similar returns for an embeddings row
SimilarRow(r, query_blob) ==
    [content_id |-> r.content_id, content |-> r.content, metadata |-> r.metadata,
     similarity |-> Similarity(r.embedding, query_blob)]

\* the result lists search_similar may return when the embedder works
SimilarLists(query, table_name, limit, threshold) ==
    LET query_blob == Pickle(embed_text(query))
        rows == {SimilarRow(r, query_blob) : r \in {e \in embeddings : e.table_name = table_name}}
    IN {SelectSeq(Prefix(s, limit), LAMBDA r : r.similarity >= threshold) :
           s \in Orderings(rows, LAMBDA a, b : a.similarity > b.similarity)}

\* faulty variant: an error of the embedder is caught and no hit is returned
search_similar_Swallowed(query, table_name, limit, threshold, embedder_ok) ==
    IF embedder_ok
    THEN {[outcome |-> "ok", value |-> v] :
             v \in SimilarLists(query, table_name, limit, threshold)}
    ELSE {[outcome |-> "ok", value |-> <<>>]}

\* EmbeddingStore.search_similar: the outcomes of a call; an error of the
\* embedder is not caught
search_similar(query, table_name, limit, threshold, embedder_ok) ==
    IF embedder_ok
    THEN {[outcome |-> "ok", value |-> v] :
             v \in SimilarLists(query, table_name, limit, threshold)}
    ELSE {[outcome |-> "error", value |-> "EmbedderError"]}

\* the key of the lexical fetch: success_rate DESC, success_count DESC, rating DESC
RateGreater(a, b) == a[1] * b[2] > b[1] * a[2]

FetchBefore(a, b) ==
    \/ RateGreater(a.success_rate, b.success_rate)
    \/ /\ ~RateGreater(b.success_rate, a.success_rate)
       /\ \/ a.success_count > b.success_count
          \/ a.success_count = b.success_count /\ a.rating > b.rating

\* SELECT * FROM workflows WHERE user_id = ? [AND category = ?]
\* ORDER BY ... LIMIT 2 * limit
LexicalFetches(user_id, category, limit) ==
    LET rows == {workflows[i] : i \in {j \in WorkflowIdsInStore :
                    /\ workflows[j].user_id = user_id
                    /\ category # NoCategory => workflows[j].category = category}}
    IN {Prefix(s, 2 * limit) : s \in Orderings(rows, FetchBefore)}

\* WorkflowManager._row_to_workflow
RowToWorkflow(row) ==
    [row EXCEPT !.steps = JsonLoads(row.steps),
                !.parameters = JsonLoads(row.parameters),
                !.is_template = (row.is_template # 0)]

\* faulty variant: ORDER BY success_rate DESC only
BestBefore_RateOnly(a, b) == RateGreater(a.success_rate, b.success_rate)

\* ORDER BY success_rate DESC, success_count DESC
BestBefore(a, b) ==
    \/ RateGreater(a.success_rate, b.success_rate)
    \/ /\ ~RateGreater(b.success_rate, a.success_rate)
       /\ a.success_count > b.success_count

\* WorkflowManager.get_best_workflow: the values a call may return. "if
\* category" adds the category condition for a category that is neither None
\* nor empty; LIMIT 1 and fetchone take the first row of the ordering
get_best_workflow(user_id, intent_type, category) ==
    LET rows == {workflows[i] : i \in {j \in WorkflowIdsInStore :
                    /\ workflows[j].user_id = user_id
                    /\ workflows[j].intent_type = intent_type
                    /\ category # NoCategory => workflows[j].category = category}}
    IN IF rows = {} THEN {NULL}
       ELSE {RowToWorkflow(s[1]) : s \in Orderings(rows, BestBefore)}

\* keywords & workflow_keywords, where keywords is the list extract returns
\* and workflow_keywords a set: list & set raises TypeError
KeywordsAnd(keywords, workflow_keywords) ==
    [raised |-> TRUE, value |-> {}]

\* the lexical loop over the fetched rows: the workflows it keeps, or the
\* error the first evaluation of keywords & workflow_keywords raises
RECURSIVE LexicalLoop(_, _)
LexicalLoop(rows, keywords) ==
    IF rows = <<>> THEN [raised |-> FALSE, workflows |-> <<>>]
    ELSE LET before == LexicalLoop(SubSeq(rows, 1, Len(rows) - 1), keywords)
             row == rows[Len(rows)]
             common == KeywordsAnd(keywords, Range(row.keywords))
         IN IF before.raised THEN before
            ELSE IF common.raised THEN [raised |-> TRUE, workflows |-> <<>>]
            ELSE IF Cardinality(common.value) > 0
                 THEN [before EXCEPT !.workflows = Append(@, RowToWorkflow(row))]
                 ELSE before

\* get_workflow
GetWorkflow(workflow_id) ==
    LET fetched == FetchWorkflow(workflow_id)
    IN IF fetched.found THEN [found |-> TRUE, workflow |-> RowToWorkflow(fetched.row)]
       ELSE NotFound

\* the semantic loop: append each hit's workflow unless its id is present,
\* stopping once limit workflows are held
RECURSIVE SemanticLoop(_, _, _)
SemanticLoop(found, semantic_results, limit) ==
    IF semantic_results = <<>> THEN found
    ELSE LET got == GetWorkflow(Head(semantic_results).content_id)
             present == {found[i].id : i \in DOMAIN found}
         IN IF got.found /\ got.workflow.id \notin present
            THEN LET more == Append(found, got.workflow)
                 IN IF Len(more) >= limit THEN more
                    ELSE SemanticLoop(more, Tail(semantic_results), limit)
            ELSE SemanticLoop(found, Tail(semantic_results), limit)

\* faulty variant: the semantic phase runs whatever the lexical phase kept
NeedsSemantic_Always(workflows_kept, limit) == EmbeddingStoreConfigured

\* if self.embedding_store and len(workflows) < limit
NeedsSemantic(workflows_kept, limit) ==
    EmbeddingStoreConfigured /\ Len(workflows_kept) < limit

\* faulty variant: the semantic phase asks for 2 * limit hits, as the lexical fetch
\* does, keeps them all and the list is returned whole
find_similar_workflows_Unbounded(user_id, prompt, category, limit, embedder_ok) ==
    LET keywords == extract(prompt, ManagerMaxKeywords)
        Ids(rows) == [i \in DOMAIN rows |-> rows[i].id]
        Semantic(kept, fetched) ==
            IF NeedsSemantic(kept, limit)
            THEN {IF r.outcome = "ok"
                  THEN [outcome |-> "ok", embedded |-> TRUE, lexical |-> Len(kept),
                        fetched |-> fetched, keywords |-> keywords,
                        value |-> SemanticLoop(kept, r.value, 2 * limit)]
                  ELSE [outcome |-> "error", embedded |-> TRUE, lexical |-> Len(kept),
                        fetched |-> fetched, keywords |-> keywords, value |-> r.value] :
                     r \in search_similar(prompt, "workflows", 2 * limit,
                                          DefaultThreshold, embedder_ok)}
            ELSE {[outcome |-> "ok", embedded |-> FALSE, lexical |-> Len(kept),
                   fetched |-> fetched, keywords |-> keywords, value |-> kept]}
    IN UNION {LET kept == LexicalLoop(rows, keywords)
              IN IF kept.raised
                 THEN {[outcome |-> "error", embedded |-> FALSE, lexical |-> 0,
                        fetched |-> Ids(rows), keywords |-> keywords,
                        value |-> "TypeError"]}
                 ELSE Semantic(kept.workflows, Ids(rows)) :
                    rows \in LexicalFetches(user_id, category, limit)}

\* WorkflowManager.find_similar_workflows: the outcomes of a call.  In an
\* outcome, fetched are the ids of the rows of the lexical fetch in fetch
\* order, lexical is the number of workflows the lexical phase kept, and
\* embedded is whether the embedder was called, keywords is the list extracted
\* from the prompt.
find_similar_workflows(user_id, prompt, category, limit, embedder_ok) ==
    LET keywords == extract(prompt, ManagerMaxKeywords)
        Ids(rows) == [i \in DOMAIN rows |-> rows[i].id]
        Semantic(kept, fetched) ==
            IF NeedsSemantic(kept, limit)
            THEN {IF r.outcome = "ok"
                  THEN [outcome |-> "ok", embedded |-> TRUE, lexical |-> Len(kept),
                        fetched |-> fetched, keywords |-> keywords,
                        value |-> Prefix(SemanticLoop(kept, r.value, limit), limit)]
                  ELSE [outcome |-> "error", embedded |-> TRUE, lexical |-> Len(kept),
                        fetched |-> fetched, keywords |-> keywords, value |-> r.value] :
                     r \in search_similar(prompt, "workflows", limit, DefaultThreshold,
                                          embedder_ok)}
            ELSE {[outcome |-> "ok", embedded |-> FALSE, lexical |-> Len(kept),
                   fetched |-> fetched, keywords |-> keywords, value |-> Prefix(kept, limit)]}
    IN UNION {LET kept == LexicalLoop(rows, keywords)
              IN IF kept.raised
                 THEN {[outcome |-> "error", embedded |-> FALSE, lexical |-> 0,
                        fetched |-> Ids(rows), keywords |-> keywords,
                        value |-> "TypeError"]}
                 ELSE Semantic(kept.workflows, Ids(rows)) :
                    rows \in LexicalFetches(user_id, category, limit)}

\* EmbeddingStore.search_keyword.  The full-text table workflows_fts and
\* its bm25 rank are the store's: the table is taken to index each workflow's
\* prompt and summary, and the rank to fall as more keywords match.  The
\* subquery compares workflows.category with table_name.
FtsContent(row) == row.original_prompt \o row.summary

Bm25(content, keywords) ==
    LET hits == Cardinality(keywords \cap Range(FindWords(content)))
    IN IF hits >= 2 THEN 0 ELSE 1

KeywordLists(query, table_name, limit) ==
    LET keywords == {Lower(query[i]) : i \in DOMAIN query}
        rows == {[content_id |-> workflows[i].id,
                  content |-> FtsContent(workflows[i]),
                  relevance |-> Bm25(FtsContent(workflows[i]), keywords)] :
                    i \in {j \in WorkflowIdsInStore :
                       /\ workflows[j].category = table_name
                       /\ keywords \cap Range(FindWords(FtsContent(workflows[j]))) # {}}}
    IN IF keywords = {} THEN {<<>>}
       ELSE {Prefix(s, limit) :
                s \in Orderings(rows, LAMBDA a, b : a.relevance < b.relevance)}

\* 1.0 / (relevance + 1), in hundredths
KeywordScore(relevance) == 100 \div (relevance + 1)

\* the entry of combined_scores for a semantic hit
SemanticEntry(result, semantic_weight) ==
    [content_id |-> result.content_id, content |-> result.content,
     semantic_score |-> result.similarity, keyword_score |-> 0,
     combined_score |-> result.similarity * semantic_weight]

\* combined_scores after the keyword hit result: the entry of a semantic hit
\* is rescored in place, another id is added last
RECURSIVE AddKeywordHit(_, _, _, _)
AddKeywordHit(entries, result, semantic_weight, keyword_weight) ==
    IF entries = <<>>
    THEN <<[content_id |-> result.content_id, content |-> result.content,
            semantic_score |-> 0, keyword_score |-> KeywordScore(result.relevance),
            combined_score |-> KeywordScore(result.relevance) * keyword_weight]>>
    ELSE IF Head(entries).content_id = result.content_id
         THEN <<[Head(entries) EXCEPT
                    !.keyword_score = KeywordScore(result.relevance),
                    !.combined_score = Head(entries).semantic_score * semantic_weight
                        + KeywordScore(result.relevance) * keyword_weight]>>
              \o Tail(entries)
         ELSE <<Head(entries)>>
              \o AddKeywordHit(Tail(entries), result, semantic_weight, keyword_weight)

RECURSIVE AddKeywordHits(_, _, _, _)
AddKeywordHits(entries, keyword_results, semantic_weight, keyword_weight) ==
    IF keyword_results = <<>> THEN entries
    ELSE AddKeywordHits(
             AddKeywordHit(entries, Head(keyword_results), semantic_weight, keyword_weight),
             Tail(keyword_results), semantic_weight, keyword_weight)

\* sorted(..., key=combined_score, reverse=True): stable
RECURSIVE InsertByScore(_, _)
InsertByScore(x, d) ==
    IF d = <<>> THEN <<x>>
    ELSE IF d[Len(d)].combined_score >= x.combined_score THEN Append(d, x)
    ELSE Append(InsertByScore(x, SubSeq(d, 1, Len(d) - 1)), d[Len(d)])

RECURSIVE SortByScore(_)
SortByScore(entries) ==
    IF entries = <<>> THEN <<>>
    ELSE InsertByScore(entries[Len(entries)],
                       SortByScore(SubSeq(entries, 1, Len(entries) - 1)))

\* EmbeddingStore.hybrid_search: the outcomes of a call
hybrid_search(query, table_name, limit, semantic_weight, keyword_weight, embedder_ok) ==
    UNION {IF semantic.outcome # "ok" THEN {semantic}
           ELSE {[outcome |-> "ok",
                  value |-> Prefix(SortByScore(AddKeywordHits(
                      [i \in DOMAIN semantic.value |->
                          SemanticEntry(semantic.value[i], semantic_weight)],
                      keyword_results, semantic_weight, keyword_weight)), limit)] :
                    keyword_results \in KeywordLists(query, table_name, limit * 2)} :
              semantic \in search_similar(query, table_name, limit * 2, DefaultThreshold,
                                          embedder_ok)}

\* a caller runs find_similar_workflows
FindSimilarWorkflows(user_id, prompt, category, limit, embedder_ok) ==
    /\ Retrieves
    /\ \E r \in find_similar_workflows(user_id, prompt, category, limit, embedder_ok) :
          last' = [op |-> "find_similar_workflows", workflow_id |-> 0,
                   user_id |-> user_id, prompt |-> prompt, category |-> category,
                   limit |-> limit, embedder_ok |-> embedder_ok,
                   embedded |-> r.embedded, lexical |-> r.lexical,
                   fetched |-> r.fetched, keywords |-> r.keywords, outcome |-> r.outcome, value |-> r.value]

\* a caller runs search_similar
SearchSimilar(query, table_name, limit, threshold, embedder_ok) ==
    /\ Retrieves
    /\ \E r \in search_similar(query, table_name, limit, threshold, embedder_ok) :
          last' = [op |-> "search_similar", workflow_id |-> 0,
                   query |-> query, table_name |-> table_name,
                   limit |-> limit, threshold |-> threshold,
                   embedder_ok |-> embedder_ok, embedded |-> TRUE,
                   outcome |-> r.outcome, value |-> r.value]

\* a caller runs hybrid_search
HybridSearch(query, table_name, limit, semantic_weight, keyword_weight, embedder_ok) ==
    /\ Retrieves
    /\ \E r \in hybrid_search(query, table_name, limit, semantic_weight, keyword_weight,
                              embedder_ok) :
          last' = [op |-> "hybrid_search", workflow_id |-> 0,
                   query |-> query, table_name |-> table_name, limit |-> limit,
                   semantic_weight |-> semantic_weight,
                   keyword_weight |-> keyword_weight,
                   embedder_ok |-> embedder_ok, embedded |-> TRUE,
                   outcome |-> r.outcome, value |-> r.value]

\* a caller runs get_best_workflow
GetBestWorkflow(user_id, intent_type, category) ==
    /\ Retrieves
    /\ \E r \in get_best_workflow(user_id, intent_type, category) :
          last' = [op |-> "get_best_workflow", workflow_id |-> 0,
                   user_id |-> user_id, intent_type |-> intent_type,
                   category |-> category, outcome |-> "ok", value |-> r]

\* a caller runs KeywordExtractor(max_keywords).extract(text)
ExtractKeywords(text, max_keywords) ==
    /\ last = NoLast
    /\ ncalls < MaxCalls
    /\ ncalls' = ncalls + 1
    /\ last' = [op |-> "extract", workflow_id |-> 0, text |-> text,
                max_keywords |-> max_keywords, outcome |-> "ok",
                value |-> extract(text, max_keywords)]
    /\ UNCHANGED <<workflows, executions, embeddings, pc, call, loc, applied,
                   lastStored, answers, conn, coreVars>>

\* the caller runs extract on the same text once more
ExtractAgain ==
    /\ last.op = "extract"
    /\ ncalls < MaxCalls
    /\ ncalls' = ncalls + 1
    /\ last' = [last EXCEPT !.value = extract(last.text, last.max_keywords)]
    /\ UNCHANGED <<workflows, executions, embeddings, pc, call, loc, applied,
                   lastStored, answers, conn, coreVars>>

----------------------------------------------------------------------------
(* AsyncTaskManager *)

MaxTasks == 3

TaskIds == 1..MaxTasks

Concurrencies == {1, 2}

\* self.tasks.get(task_id) of an id that is not in the dictionary
NoTask == [status |-> "absent"]

\* AsyncTask(status = ...): progress, message, result and error are not modelled
AsyncTask(status) == [status |-> status]

\* str(uuid.uuid4())[:8]: an id no task has
FreshTasks(tasks) ==
    IF \E t \in TaskIds : tasks[t] = NoTask
    THEN {CHOOSE t \in TaskIds : tasks[t] = NoTask /\ \A u \in TaskIds : tasks[u] = NoTask => t <= u}
    ELSE {}

Locked_Never(semaphore) == FALSE

\* asyncio.Semaphore.locked(): no permit is left, so "async with" suspends
Locked(semaphore) == semaphore = 0

\* every variable but manager
managerOthers == <<memoryVars, orchestrator, sender, limiter, state_manager, now>>

\* AsyncTaskManager(max_concurrent).  The fields worker, current, coro, caller
\* and origin are the positions of the coroutines: of _process_queue and the
\* item it holds, of each coroutine handed over, of each run_task call, and
\* the method each task was made by
AsyncTaskManagerInit(max_concurrent) ==
    /\ ~manager.constructed
    /\ manager' = [constructed |-> TRUE,
                   max_concurrent |-> max_concurrent,
                   semaphore |-> max_concurrent,
                   tasks |-> [t \in TaskIds |-> NoTask],
                   task_queue |-> <<>>,
                   running |-> FALSE,
                   worker |-> "none",
                   current |-> 0,
                   coro |-> [t \in TaskIds |-> "none"],
                   caller |-> [t \in TaskIds |-> "none"],
                   origin |-> [t \in TaskIds |-> "none"]]
    /\ UNCHANGED managerOthers

\* start(): the worker task is created
Start ==
    /\ manager.constructed
    /\ ~manager.running
    /\ manager' = [manager EXCEPT !.running = TRUE, !.worker = "get", !.current = 0]
    /\ UNCHANGED managerOthers

\* stop(): the worker task is cancelled; CancelledError leaves "async with"
\* through its exit, and ends the coroutine the worker awaits
Stop ==
    /\ manager.constructed
    /\ manager.running
    /\ manager' = [manager EXCEPT
                      !.running = FALSE,
                      !.worker = "none",
                      !.current = 0,
                      !.semaphore = IF manager.worker = "await" THEN @ + 1 ELSE @,
                      !.coro = IF manager.worker = "await"
                               THEN [@ EXCEPT ![manager.current] = "cancelled"]
                               ELSE @]
    /\ UNCHANGED managerOthers

\* create_task(name, coro): the task is PENDING and (coro, task) is queued
CreateTask ==
    /\ manager.constructed
    /\ \E t \in FreshTasks(manager.tasks) :
          manager' = [manager EXCEPT
                         !.tasks[t] = AsyncTask("pending"),
                         !.task_queue = Append(@, t),
                         !.coro[t] = "created",
                         !.origin[t] = "create_task"]
    /\ UNCHANGED managerOthers

\* _process_queue: task_queue.get() and "async with self.semaphore"
WorkerGet ==
    /\ manager.constructed
    /\ manager.worker = "get"
    /\ manager.task_queue # <<>>
    /\ LET t == Head(manager.task_queue)
       IN manager' = IF Locked(manager.semaphore)
                     THEN [manager EXCEPT !.task_queue = Tail(@), !.current = t,
                                          !.worker = "acquire"]
                     ELSE [manager EXCEPT !.task_queue = Tail(@), !.current = t,
                                          !.worker = "await",
                                          !.semaphore = @ - 1,
                                          !.coro[t] = "running"]
    /\ UNCHANGED managerOthers

\* _process_queue: a permit has been released to the waiting worker
WorkerAcquire ==
    /\ manager.constructed
    /\ manager.worker = "acquire"
    /\ ~Locked(manager.semaphore)
    /\ manager' = [manager EXCEPT !.worker = "await",
                                  !.semaphore = @ - 1,
                                  !.coro[manager.current] = "running"]
    /\ UNCHANGED managerOthers

\* _process_queue: "await coro" ends (an exception is logged), task_done(),
\* the permit is released and the loop goes on; the task is not touched
WorkerCompletes(raised) ==
    /\ manager.constructed
    /\ manager.worker = "await"
    /\ manager' = [manager EXCEPT
                      !.coro[manager.current] = IF raised THEN "raised" ELSE "returned",
                      !.semaphore = @ + 1,
                      !.worker = "get",
                      !.current = 0]
    /\ UNCHANGED managerOthers

\* run_task(name, coro): the task is RUNNING and "async with self.semaphore"
RunTask ==
    /\ manager.constructed
    /\ \E t \in FreshTasks(manager.tasks) :
          manager' = IF Locked(manager.semaphore)
                     THEN [manager EXCEPT !.tasks[t] = AsyncTask("running"),
                                          !.origin[t] = "run_task",
                                          !.coro[t] = "created",
                                          !.caller[t] = "acquire"]
                     ELSE [manager EXCEPT !.tasks[t] = AsyncTask("running"),
                                          !.origin[t] = "run_task",
                                          !.coro[t] = "running",
                                          !.caller[t] = "await",
                                          !.semaphore = @ - 1]
    /\ UNCHANGED managerOthers

\* run_task: a permit has been released to the waiting call
RunTaskAcquire(t) ==
    /\ manager.constructed
    /\ manager.caller[t] = "acquire"
    /\ ~Locked(manager.semaphore)
    /\ manager' = [manager EXCEPT !.caller[t] = "await",
                                  !.coro[t] = "running",
                                  !.semaphore = @ - 1]
    /\ UNCHANGED managerOthers

\* run_task: "await coro" ends; the task is COMPLETED, or FAILED in the
\* except clause; the permit is released; the task is returned
RunTaskCompletes(t, raised) ==
    /\ manager.constructed
    /\ manager.caller[t] = "await"
    /\ manager' = [manager EXCEPT
                      !.coro[t] = IF raised THEN "raised" ELSE "returned",
                      !.tasks[t] = AsyncTask(IF raised THEN "failed" ELSE "completed"),
                      !.semaphore = @ + 1,
                      !.caller[t] = "returned"]
    /\ UNCHANGED managerOthers

\* cancel_task(task_id) of a task of the dictionary: it returns True
CancelTask(t) ==
    /\ manager.constructed
    /\ manager.tasks[t] # NoTask
    /\ manager' = [manager EXCEPT !.tasks[t] = AsyncTask("cancelled")]
    /\ UNCHANGED managerOthers

----------------------------------------------------------------------------
(* Orchestrator *)

MessageLinkedin == <<"linkedin", "connect", "with", "the", "founder">>

\* the messages users send; PromptConnect names no site
Messages == {PromptConnect, MessageLinkedin}

\* "word in message_lower".  A word is in a message when it is one of its
\* tokens: no token of Messages holds one of the tested words as a proper part
InMessage(word, message) == word \in {Lower(message[i]) : i \in DOMAIN message}

\* _classify_intent: <<intent_type, category>>
classify_intent(message) ==
    LET has(word) == InMessage(word, message)
    IN IF has("linkedin")
       THEN <<IF has("connection") \/ has("connect") THEN "connection_request"
              ELSE IF has("message") \/ has("send") THEN "send_message"
              ELSE IF has("profile") THEN "visit_profile"
              ELSE IF has("search") \/ has("find") THEN "search_people"
              ELSE "general",
              "linkedin">>
       ELSE IF has("youtube") \/ has("video")
       THEN <<IF has("transcript") \/ has("summary") THEN "video_research"
              ELSE "video_download",
              "youtube">>
       ELSE <<IF has("search") \/ has("research") THEN "web_search"
              ELSE IF has("visit") \/ has("open") THEN "web_browse"
              ELSE "general",
              "general">>

\* base_steps of _plan_steps: the actions of each step list
BaseSteps(intent_type) ==
    CASE intent_type = "connection_request" ->
            <<"search_people", "visit_profile", "send_connection">>
      [] intent_type = "send_message" -> <<"find_profile", "send_message">>
      [] intent_type = "visit_profile" -> <<"navigate", "extract_info">>
      [] intent_type = "search_people" -> <<"search_people", "filter_results">>
      [] intent_type = "video_research" -> <<"download_transcript", "summarize">>
      [] intent_type = "web_search" -> <<"navigate", "extract_info">>
      [] OTHER -> <<"analyze_request", "execute_browser_action">>

\* _plan_steps: the steps of the first similar workflow when it has any
plan_steps(intent_type, similar_workflows) ==
    IF similar_workflows # <<>> /\ similar_workflows[1].steps # <<>>
    THEN similar_workflows[1].steps
    ELSE BaseSteps(intent_type)

\* self.tasks.get(task_id) of an id that is not in the dictionary
NoOrchestratorTask == [status |-> "absent"]

\* the Task of _create_task, as _execute_task has it after its first two
\* statements: IN_PROGRESS, before its first step.  parameters holds the ids
\* of the similar workflows, result is None until the task ends
Task(user_id, intent_type, category, original_prompt, similar_workflows) ==
    [status |-> "in_progress",
     user_id |-> user_id,
     intent_type |-> intent_type,
     category |-> category,
     original_prompt |-> original_prompt,
     parameters |-> [i \in DOMAIN similar_workflows |-> similar_workflows[i].id],
     steps |-> plan_steps(intent_type, similar_workflows),
     current_step |-> 0,
     result |-> NULL]

\* the entry _execute_task appends to step_results for step i
StepResult(i, raised) == [step |-> i, success |-> ~raised]

Breaks_Never(raised) == FALSE

\* _execute_task: the except clause of a step ends the loop
Breaks(raised) == raised

AllSuccessful(step_results) ==
    \A k \in DOMAIN step_results : step_results[k].success

\* _execute_task after its loop: status and result
Ended(task, step_results) ==
    [task EXCEPT !.status = IF AllSuccessful(step_results) THEN "completed" ELSE "failed",
                 !.result = [step_results |-> step_results]]

\* _generate_response
ResponseCompleted == <<"Task", "completed", "successfully">>
ResponseFailed == <<"Task", "failed">>

generate_response(task) ==
    IF task.status = "completed" THEN ResponseCompleted ELSE ResponseFailed

\* process_message: return f"I encountered an error: {str(e)}"
ResponseError == <<"encountered", "an", "error">>

ShouldLearn_Always(enable_learning, success) == TRUE

\* process_message: if self.enable_learning and execution_result["success"]
ShouldLearn(enable_learning, success) == enable_learning /\ success

\* the arguments _learn_from_execution passes to record_workflow
LearnInput(task, response) ==
    [user_id |-> task.user_id, category |-> task.category,
     intent_type |-> task.intent_type, original_prompt |-> task.original_prompt,
     summary |-> response, steps |-> task.steps, parameters |-> task.parameters,
     is_template |-> FALSE, rating |-> 5]

\* a process_message coroutine that has not been called
NoMessage == [pc |-> "none"]

\* the classes "except Exception" catches, of the exceptions of the model
Exceptions == {"TypeError", "EmbedderError", "StoreError", "ProgressError"}

\* process_message has returned response for task t
Responded(t, response) ==
    [pc |-> "done", task_id |-> t, raised |-> FALSE, response |-> response]

\* process_message: exception has left the try block ("except Exception as
\* e" returns the error text)
Excepted(t, exception) ==
    [pc |-> "done", task_id |-> t, raised |-> exception \notin Exceptions,
     response |-> ResponseError]

\* _learn_from_execution: exception has left record_workflow ("except
\* Exception as e" logs it), and process_message returns response
LearnExcepted(t, response, exception) ==
    [pc |-> "done", task_id |-> t, raised |-> exception \notin Exceptions,
     response |-> response]

FreshOrchestratorTasks(tasks) ==
    IF \E t \in TaskIds : tasks[t] = NoOrchestratorTask
    THEN {CHOOSE t \in TaskIds :
             tasks[t] = NoOrchestratorTask
             /\ \A u \in TaskIds : tasks[u] = NoOrchestratorTask => t <= u}
    ELSE {}

\* every variable but orchestrator and those of the memory
orchestratorOthers == <<manager, sender, limiter, state_manager, now>>

\* Orchestrator(..., enable_learning).  The field coroutine is the position
\* and the local variables of each process_message call; executed and
\* cancelled are history: the steps _execute_step has run for each task, and
\* the tasks for which cancel_task has returned True
OrchestratorInit(enable_learning) ==
    /\ ~orchestrator.constructed
    /\ orchestrator' = [constructed |-> TRUE,
                        enable_learning |-> enable_learning,
                        tasks |-> [t \in TaskIds |-> NoOrchestratorTask],
                        coroutine |-> [m \in Procs |-> NoMessage],
                        executed |-> [t \in TaskIds |-> <<>>],
                        cancelled |-> [t \in TaskIds |-> FALSE]]
    /\ UNCHANGED <<memoryVars, orchestratorOthers>>

\* process_message after _execute_task has ended task t of coroutine m with
\* step_results: it awaits _learn_from_execution, or returns the response
AfterExecute(m, t, task, step_results, executed) ==
    LET ended == Ended(task, step_results)
        response == generate_response(ended)
    IN orchestrator' =
          [orchestrator EXCEPT
              !.tasks[t] = ended,
              !.executed[t] = executed,
              !.coroutine[m] =
                  IF ShouldLearn(orchestrator.enable_learning, AllSuccessful(step_results))
                  THEN [pc |-> "learn", task_id |-> t, response |-> response]
                  ELSE Responded(t, response)]

\* the results of steps 0 .. n - 1, of which step failing - 1 raises
LoopResults(n, failing) == [k \in 1..n |-> StepResult(k - 1, k = failing)]

\* process_message(user_id, chat_id, username, message, send_progress) up to
\* its first suspension.  An exception of find_similar_workflows is caught and
\* the error text returned.  With send_progress the call is suspended in the
\* send_progress of step 0; without, _execute_task has no suspension and runs
\* every step, of which step failing - 1 raises (none when failing = 0)
ProcessMessage(m, user_id, message, send_progress, embedder_ok, failing) ==
    /\ orchestrator.constructed
    /\ orchestrator.coroutine[m] = NoMessage
    /\ \E t \in FreshOrchestratorTasks(orchestrator.tasks),
          found \in find_similar_workflows(user_id, message, classify_intent(message)[2],
                                           3, embedder_ok) :
          IF found.outcome # "ok"
          THEN /\ failing = 0
               /\ orchestrator' =
                     [orchestrator EXCEPT
                         !.coroutine[m] = Excepted(0, found.value)]
          ELSE LET task == Task(user_id, classify_intent(message)[1],
                                classify_intent(message)[2], message, found.value)
                   n == IF failing = 0 THEN Len(task.steps) ELSE failing
               IN IF send_progress
                  THEN /\ failing = 0
                       /\ orchestrator' =
                             [orchestrator EXCEPT
                                 !.tasks[t] = task,
                                 !.coroutine[m] = [pc |-> "progress", task_id |-> t,
                                                   step_results |-> <<>>]]
                  ELSE /\ failing <= Len(task.steps)
                       /\ AfterExecute(m, t, [task EXCEPT !.current_step = n - 1],
                                       LoopResults(n, failing),
                                       [k \in 1..n |-> k - 1])
    /\ UNCHANGED <<memoryVars, orchestratorOthers>>

\* _execute_task: send_progress of the current step returns and
\* _execute_step runs the step.  An exception of send_progress leaves
\* _execute_task and is caught by process_message; an exception of the step
\* is recorded and ends the loop
ExecuteStep(m, progress_raised, raised) ==
    /\ orchestrator.constructed
    /\ orchestrator.coroutine[m].pc = "progress"
    /\ LET t == orchestrator.coroutine[m].task_id
           task == orchestrator.tasks[t]
           i == task.current_step
           step_results == Append(orchestrator.coroutine[m].step_results,
                                  StepResult(i, raised))
           executed == Append(orchestrator.executed[t], i)
       IN IF progress_raised
          THEN /\ ~raised
               /\ orchestrator' =
                     [orchestrator EXCEPT
                         !.coroutine[m] = Excepted(t, "ProgressError")]
          ELSE IF Breaks(raised) \/ i + 1 = Len(task.steps)
          THEN AfterExecute(m, t, task, step_results, executed)
          ELSE orchestrator' =
                  [orchestrator EXCEPT
                      !.tasks[t].current_step = i + 1,
                      !.executed[t] = executed,
                      !.coroutine[m].step_results = step_results]
    /\ UNCHANGED <<memoryVars, orchestratorOthers>>

\* _learn_from_execution: record_workflow up to its INSERT (db.insert
\* commits).  The except clause logs an exception of the store, and
\* process_message returns the response
LearnInsert(m) ==
    /\ orchestrator.constructed
    /\ orchestrator.coroutine[m].pc = "learn"
    /\ Len(workflows) < MaxWorkflows
    /\ LET c == orchestrator.coroutine[m]
           input == LearnInput(orchestrator.tasks[c.task_id], c.response)
           workflow_id == Len(workflows) + 1
       IN IF ~Execute(answers).ok
          THEN /\ UNCHANGED workflows
               /\ conn' = Executed
               /\ orchestrator' =
                     [orchestrator EXCEPT
                         !.coroutine[m] = LearnExcepted(c.task_id, c.response,
                                                        "StoreError")]
          ELSE /\ workflows' = Append(workflows, NewWorkflowRow(workflow_id, input))
               /\ conn' = Inserted(workflows', executions, embeddings)
               /\ orchestrator' =
                     [orchestrator EXCEPT
                         !.coroutine[m] =
                             IF EmbeddingStoreConfigured
                             THEN [pc |-> "learn_embed", task_id |-> c.task_id,
                                   response |-> c.response, workflow_id |-> workflow_id]
                             ELSE Responded(c.task_id, c.response)]
    /\ UNCHANGED <<executions, embeddings, pc, call, loc, last, applied, lastStored,
                   ncalls, answers, orchestratorOthers>>

\* _learn_from_execution: store_embedding of record_workflow.  The except
\* clause logs an exception of the embedder or of the store, and
\* process_message returns the response
LearnEmbed(m, embedder_ok) ==
    /\ orchestrator.constructed
    /\ orchestrator.coroutine[m].pc = "learn_embed"
    /\ LET c == orchestrator.coroutine[m]
           input == LearnInput(orchestrator.tasks[c.task_id], c.response)
           content == input.original_prompt \o input.summary
           metadata == WorkflowMetadata(input)
       IN /\ IF ~embedder_ok
             THEN UNCHANGED <<embeddings, lastStored, conn>>
             ELSE IF ~Execute(answers).ok
             THEN /\ UNCHANGED <<embeddings, lastStored>>
                  /\ conn' = Executed
             ELSE /\ embeddings' = UpsertEmbedding(embeddings,
                        EmbeddingRow(c.workflow_id, "workflows", content, NoVector,
                                     metadata))
                  /\ lastStored' = [lastStored EXCEPT ![<<c.workflow_id, "workflows">>] =
                                       StoredArgs(@, content, NoVector, metadata)]
                  /\ conn' = Executed
          /\ orchestrator' =
                [orchestrator EXCEPT
                    !.coroutine[m] =
                        IF ~embedder_ok
                        THEN LearnExcepted(c.task_id, c.response, "EmbedderError")
                        ELSE IF ~Execute(answers).ok
                        THEN LearnExcepted(c.task_id, c.response, "StoreError")
                        ELSE Responded(c.task_id, c.response)]
    /\ UNCHANGED <<workflows, executions, pc, call, loc, last, applied, ncalls, answers,
                   orchestratorOthers>>

\* cancel_task(task_id) of a task that is IN_PROGRESS: it returns True.  For
\* any other task, and for an id that is not in the dictionary, it returns
\* False and changes nothing
OrchestratorCancelTask(t) ==
    /\ orchestrator.constructed
    /\ orchestrator.tasks[t].status = "in_progress"
    /\ orchestrator' = [orchestrator EXCEPT !.tasks[t].status = "cancelled",
                                            !.cancelled[t] = TRUE]
    /\ UNCHANGED <<memoryVars, orchestratorOthers>>

----------------------------------------------------------------------------
(* AsyncSender *)

\* the clock stops at MaxTime
MaxTime == 4

Chats == {1, 2}

\* rate_limit_delay, in ticks
Delays == {1, 2}

\* self._last_message_time.get(chat_id) of a chat nothing was sent to
NoTime == -1

\* the coroutine of _message_worker, beside the callers' coroutines Procs
MessageWorker == 0

Senders == Procs \cup {MessageWorker}

\* a coroutine that is in no call of the sender
NoSend == [pc |-> "none"]

\* every variable but sender and the clock
senderOthers == <<memoryVars, manager, orchestrator, limiter, state_manager>>

\* AsyncSender(token, max_concurrent, rate_limit_delay).  The field coroutine
\* is the position of each coroutine that sends; handed is history: per chat,
\* the times of the latest two calls of bot.send_message
AsyncSenderInit(rate_limit_delay) ==
    /\ ~sender.constructed
    /\ sender' = [constructed |-> TRUE,
                  rate_limit_delay |-> rate_limit_delay,
                  last_message_time |-> [c \in Chats |-> NoTime],
                  message_queue |-> <<>>,
                  running |-> FALSE,
                  coroutine |-> [m \in Senders |-> NoSend],
                  handed |-> [c \in Chats |-> <<>>]]
    /\ UNCHANGED <<senderOthers, now>>

\* time passes
Tick ==
    /\ sender.constructed
    /\ now < MaxTime
    /\ now' = now + 1
    /\ UNCHANGED <<senderOthers, sender>>

\* start(): the worker task is created
AsyncSenderStart ==
    /\ sender.constructed
    /\ ~sender.running
    /\ sender' = [sender EXCEPT !.running = TRUE]
    /\ UNCHANGED <<senderOthers, now>>

\* history: the latest two times of handed and time
LatestTwo(handed, time) ==
    IF Len(handed) = 2 THEN <<handed[2], time>> ELSE Append(handed, time)

\* the end of _rate_limit and the call of bot.send_message that follows it
\* with no suspension between: the time of the chat is set and the message
\* is handed over.  The worker then sleeps rate_limit_delay
Hands(m, chat_id) ==
    [sender EXCEPT
        !.last_message_time[chat_id] = now,
        !.handed[chat_id] = LatestTwo(@, now),
        !.coroutine[m] = IF m = MessageWorker
                         THEN [pc |-> "pause", wake |-> now + sender.rate_limit_delay]
                         ELSE NoSend]

\* _rate_limit(chat_id) up to its suspension, in coroutine m: the time of the
\* chat is read; if less than rate_limit_delay has elapsed the coroutine
\* sleeps for the rest of it
RateLimit(m, chat_id) ==
    LET last_time == sender.last_message_time[chat_id]
    IN IF last_time # NoTime /\ now - last_time < sender.rate_limit_delay
       THEN [sender EXCEPT
                !.coroutine[m] =
                    [pc |-> "sleep", chat_id |-> chat_id,
                     wake |-> now + (sender.rate_limit_delay - (now - last_time))]]
       ELSE Hands(m, chat_id)

\* send_message(chat_id, text) and send_progress_update(chat_id, ...): both
\* await self._rate_limit(chat_id) and then bot.send_message
Send(m, chat_id) ==
    /\ sender.constructed
    /\ m \in Procs
    /\ sender.coroutine[m] = NoSend
    /\ sender' = RateLimit(m, chat_id)
    /\ UNCHANGED <<senderOthers, now>>

\* send_message(chat_id, text, queue=True): _send() is queued, True returned
\* (one message is queued at a time)
SendQueued(chat_id) ==
    /\ sender.constructed
    /\ sender.message_queue = <<>>
    /\ sender' = [sender EXCEPT !.message_queue = Append(@, chat_id)]
    /\ UNCHANGED <<senderOthers, now>>

\* _message_worker: the next queued _send() is awaited
WorkerSend ==
    /\ sender.constructed
    /\ sender.running
    /\ sender.coroutine[MessageWorker] = NoSend
    /\ sender.message_queue # <<>>
    /\ sender' = [RateLimit(MessageWorker, Head(sender.message_queue))
                     EXCEPT !.message_queue = Tail(@)]
    /\ UNCHANGED <<senderOthers, now>>

\* asyncio.sleep has ended, at its time or later: _rate_limit sets the time
\* of the chat and the message is handed over
Wake(m) ==
    /\ sender.constructed
    /\ sender.coroutine[m].pc = "sleep"
    /\ now >= sender.coroutine[m].wake
    /\ sender' = Hands(m, sender.coroutine[m].chat_id)
    /\ UNCHANGED <<senderOthers, now>>

\* _message_worker: the sleep after a message has ended
WorkerResume ==
    /\ sender.constructed
    /\ sender.coroutine[MessageWorker].pc = "pause"
    /\ now >= sender.coroutine[MessageWorker].wake
    /\ sender' = [sender EXCEPT !.coroutine[MessageWorker] = NoSend]
    /\ UNCHANGED <<senderOthers, now>>

----------------------------------------------------------------------------
(* RateLimiter *)

\* max_calls and period (in ticks) of the limiters
Quotas == {1, 2}

Periods == {2, 3}

\* the ticks between a call of allow and the one before it
Elapsed == {0, 1, 2}

Recent_None(calls, time, period) == <<>>

\* [t for t in self.calls if now - t < self.period]
Recent(calls, time, period) == SelectSeq(calls, LAMBDA t : time - t < period)

\* RateLimiter(max_calls, period).  The fields granted and result are
\* history: the times of the calls of allow that returned True, and what the
\* latest call returned
RateLimiterInit(max_calls, period) ==
    /\ ~limiter.constructed
    /\ limiter' = [constructed |-> TRUE, max_calls |-> max_calls, period |-> period,
                   calls |-> <<>>, granted |-> <<>>, result |-> "none"]
    /\ UNCHANGED <<memoryVars, manager, orchestrator, sender, state_manager, now>>

\* allow(), called elapsed ticks after the call before it
Allow(elapsed) ==
    /\ limiter.constructed
    /\ now + elapsed <= MaxTime
    /\ now' = now + elapsed
    /\ LET calls == Recent(limiter.calls, now', limiter.period)
       IN limiter' = IF Len(calls) < limiter.max_calls
                     THEN [limiter EXCEPT !.calls = Append(calls, now'),
                                          !.granted = Append(@, now'),
                                          !.result = TRUE]
                     ELSE [limiter EXCEPT !.calls = calls, !.result = FALSE]
    /\ UNCHANGED <<memoryVars, manager, orchestrator, sender, state_manager>>

----------------------------------------------------------------------------
(* StateManager *)

\* the calls of add_message of a behaviour
MaxAdded == 4

MaxHistories == {0, 1, 2}

HistoryLimits == {0, 1, 2, 3}

\* the task_id of set_task: a task id or None
TaskNames == {"task_1", "None"}

Preferences == {[language |-> "en"]}

NoContext == [present |-> FALSE]

\* ConversationContext(user_id, chat_id).  The field added is history: the
\* messages added to this context, all of them, in the order of the calls
ConversationContext(user_id) ==
    [present |-> TRUE, user_id |-> user_id, messages |-> <<>>,
     current_task |-> "None", preferences |-> <<>>, added |-> <<>>]

\* s[-n:] of a list, n >= 0: the index -0 is the index 0, the whole list
FromMinus(s, n) ==
    IF n = 0 THEN s ELSE SubSeq(s, Len(s) - Min(n, Len(s)) + 1, Len(s))

\* dict.update
DictUpdate(d, e) ==
    [k \in DOMAIN d \cup DOMAIN e |-> IF k \in DOMAIN e THEN e[k] ELSE d[k]]

\* get_context: the contexts after it, the context of user_id made if absent
get_context(contexts, user_id) ==
    IF contexts[user_id].present
    THEN contexts
    ELSE [contexts EXCEPT ![user_id] = ConversationContext(user_id)]

stateOthers == <<memoryVars, manager, orchestrator, sender, limiter, now>>

\* StateManager(max_history).  The fields count, op and returned are history:
\* the calls of add_message so far, the latest call, and what the latest
\* call of get_history was given and returned
StateManagerInit(max_history) ==
    /\ ~state_manager.constructed
    /\ state_manager' = [constructed |-> TRUE, max_history |-> max_history,
                         contexts |-> [u \in Users |-> NoContext],
                         count |-> 0, op |-> "__init__",
                         returned |-> [user_id |-> 0, limit |-> 0, messages |-> <<>>]]
    /\ UNCHANGED stateOthers

\* add_message(user_id, chat_id, role, content): the content of the n-th
\* message added is n
AddMessage(user_id) ==
    /\ state_manager.constructed
    /\ state_manager.count < MaxAdded
    /\ LET contexts == get_context(state_manager.contexts, user_id)
           message == [role |-> "user", content |-> state_manager.count + 1]
           messages == Append(contexts[user_id].messages, message)
       IN state_manager' =
              [state_manager EXCEPT
                 !.contexts = [contexts EXCEPT
                     ![user_id].messages =
                         IF Len(messages) > state_manager.max_history
                         THEN FromMinus(messages, state_manager.max_history)
                         ELSE messages,
                     ![user_id].added = Append(@, message)],
                 !.count = @ + 1,
                 !.op = "add_message"]
    /\ UNCHANGED stateOthers

\* set_task(user_id, task_id)
SetTask(user_id, task_id) ==
    /\ state_manager.constructed
    /\ LET contexts == get_context(state_manager.contexts, user_id)
       IN state_manager' =
              [state_manager EXCEPT
                 !.contexts = [contexts EXCEPT ![user_id].current_task = task_id],
                 !.op = "set_task"]
    /\ UNCHANGED stateOthers

\* get_history(user_id, chat_id, limit)
GetHistory(user_id, limit) ==
    /\ state_manager.constructed
    /\ LET contexts == get_context(state_manager.contexts, user_id)
       IN state_manager' =
              [state_manager EXCEPT
                 !.contexts = contexts,
                 !.op = "get_history",
                 !.returned = [user_id |-> user_id, limit |-> limit,
                               messages |-> FromMinus(contexts[user_id].messages, limit)]]
    /\ UNCHANGED stateOthers

\* update_preferences(user_id, chat_id, preferences)
UpdatePreferences(user_id, preferences) ==
    /\ state_manager.constructed
    /\ LET contexts == get_context(state_manager.contexts, user_id)
       IN state_manager' =
              [state_manager EXCEPT
                 !.contexts = [contexts EXCEPT
                     ![user_id].preferences = DictUpdate(@, preferences)],
                 !.op = "update_preferences"]
    /\ UNCHANGED stateOthers

\* clear_context(user_id)
ClearContext(user_id) ==
    /\ state_manager.constructed
    /\ state_manager' =
           [state_manager EXCEPT
              !.contexts = IF @[user_id].present
                           THEN [@ EXCEPT ![user_id] = NoContext]
                           ELSE @,
              !.op = "clear_context"]
    /\ UNCHANGED stateOthers

----------------------------------------------------------------------------
(* Specifications *)

\* (was_successful, new_steps) of the update_workflow_success calls
UpdateInputs == {<<TRUE, <<>>>>, <<FALSE, <<>>>>, <<TRUE, StepsA>>}

\* (user_id, status, step_results) of the record_execution calls
ExecutionInputs ==
    {<<1, "pending", StepsB>>, <<2, "completed", StepsB>>, <<1, "failed", <<>>>>}

\* the ids a caller passes: those in the store and the next, unassigned one
CallableIds == 1 .. (Len(workflows) + 1)

\* the statements of the statistics lifecycle, run by coroutine p
Lifecycle(p) ==
    \/ \E input \in WorkflowInputs : RecordWorkflowInsert(p, input)
    \/ \E embedder_ok \in BOOLEAN : RecordWorkflowEmbed(p, embedder_ok)
    \/ \E workflow_id \in CallableIds, u \in UpdateInputs :
            UpdateWorkflowSuccessSelect(p, workflow_id, u[1], u[2])
    \/ UpdateWorkflowSuccessUpdate(p)
    \/ \E workflow_id \in CallableIds, e \in ExecutionInputs, fk_declared \in BOOLEAN :
            RecordExecutionInsert(p, workflow_id, e[1], e[2], e[3], fk_declared)
    \/ RecordExecutionSelect(p)
    \/ RecordExecutionUpdate(p)
    \/ RecordExecutionComplete(p)
    \/ \E workflow_id \in CallableIds, user_id \in Users :
            ConvertToTemplate(p, workflow_id, user_id)

\* (table_name, content, embedding, metadata) of the store_embedding calls
StoreInputs ==
    {<<"workflows", PromptMessage, NoVector, NoMetadata>>,
     <<"workflows", PromptConnect, 2, Metadata(<<"pinned">>)>>,
     <<"linkedin", PromptStop, NoVector, Metadata(<<>>)>>}

Limits == {0, 1, 2}

\* the texts search_similar and hybrid_search are queried with
Queries == {PromptConnect, PromptStop}

Thresholds == {0, DefaultThreshold}

\* (semantic_weight, keyword_weight), in tenths: the defaults 0.6 and 0.4,
\* and semantic only
Weights == {<<6, 4>>, <<10, 0>>}

\* the embedding index, used directly
Index(p) ==
    \/ \E content_id \in CallableIds, e \in StoreInputs, embedder_ok \in BOOLEAN :
            StoreEmbedding(p, content_id, e[1], e[2], e[3], e[4], embedder_ok)
    \/ \E content_id \in CallableIds, table_name \in Tables :
            DeleteEmbeddings(p, content_id, table_name)

\* (user_id, prompt, category, limit, embedder_ok) of the find_similar_workflows
\* calls: every combination with a working embedder, and a failing embedder
\* with and without a semantic phase
FindInputs ==
    (Users \X Queries \X {NoCategory} \X Limits \X {TRUE})
    \cup (Users \X Queries \X {"youtube"} \X {1, 2} \X {TRUE})
    \cup ({1} \X {PromptConnect} \X {NoCategory} \X {0, 2} \X {FALSE})

\* (query, table_name, limit, threshold, embedder_ok) of the search_similar calls
SearchInputs ==
    (Queries \X {"workflows"} \X Limits \X Thresholds \X {TRUE})
    \cup (Queries \X {"linkedin"} \X {2} \X {DefaultThreshold} \X {TRUE})
    \cup (Queries \X {"workflows"} \X {1} \X {DefaultThreshold} \X {FALSE})

\* (query, table_name, limit, weights, embedder_ok) of the hybrid_search calls
HybridInputs ==
    (Queries \X Tables \X {1, 2} \X Weights \X {TRUE})
    \cup (Queries \X {"workflows"} \X {0} \X {<<6, 4>>} \X {TRUE})
    \cup (Queries \X {"workflows"} \X {1} \X Weights \X {FALSE})

\* the retrieval calls
Retrieval ==
    \/ \E f \in FindInputs : FindSimilarWorkflows(f[1], f[2], f[3], f[4], f[5])
    \/ \E q \in SearchInputs : SearchSimilar(q[1], q[2], q[3], q[4], q[5])
    \/ \E h \in HybridInputs : HybridSearch(h[1], h[2], h[3], h[4][1], h[4][2], h[5])
    \/ Resume

\* the tokens of the texts extract is applied to: capitalised, upper-case,
\* stop words, a token with a digit, a word of two letters, and keywords
Vocabulary == {"Connect", "connect", "The", "PM", "v2", "ok", "message", "founder"}

MaxTextLen == 4

Texts == UNION {[1 .. n -> Vocabulary] : n \in 0 .. MaxTextLen}

\* the max_keywords an extractor is built with
KeywordLimits == {0, 1, 2}

\* (content_id, table_name, content) of the store_embedding calls for workflows
\* and for executions, with ids that exist and ids that do not
OwnedStoreInputs == (1 .. 2) \X {"workflows", ExecutionsTable} \X {PromptConnect}

\* one caller, one call at a time: workflows and executions are recorded,
\* embeddings are stored for both and the orphaned ones are cleaned up
NextCleanup ==
    \/ \E input \in WorkflowInputs : RecordWorkflowInsert(1, input)
    \/ \E embedder_ok \in BOOLEAN : RecordWorkflowEmbed(1, embedder_ok)
    \/ \E workflow_id \in CallableIds, e \in ExecutionInputs, fk_declared \in BOOLEAN :
            RecordExecutionInsert(1, workflow_id, e[1], e[2], e[3], fk_declared)
    \/ RecordExecutionSelect(1)
    \/ RecordExecutionUpdate(1)
    \/ RecordExecutionComplete(1)
    \/ \E e \in OwnedStoreInputs :
            StoreEmbedding(1, e[1], e[2], e[3], NoVector, NoMetadata, TRUE)
    \/ CleanupOrphanedEmbeddings(1)

SpecCleanup == Init /\ [][NextCleanup]_vars

\* (table_name, content, metadata) of the concurrent store_embedding calls
ConcurrentStoreInputs ==
    {<<"workflows", PromptMessage, NoMetadata>>,
     <<"workflows", PromptConnect, Metadata(<<"pinned">>)>>,
     <<"linkedin", PromptStop, NoMetadata>>}

\* concurrent callers of the embedding index
NextIndex ==
    \E p \in Procs :
        \/ \E content_id \in 1 .. 2, e \in ConcurrentStoreInputs, embedder_ok \in BOOLEAN :
                StoreEmbeddingEmbed(p, content_id, e[1], e[2], NoVector, e[3], embedder_ok)
        \/ StoreEmbeddingUpsert(p)
        \/ \E content_id \in 1 .. 2, table_name \in Tables :
                DeleteEmbeddings(p, content_id, table_name)

SpecIndex == Init /\ [][NextIndex]_vars

\* one caller, one call at a time, over a connection that may be closed after
\* any call
NextDurable ==
    \/ Lifecycle(1)
    \/ Index(1)
    \/ CloseConnection

SpecDurable == Init /\ [][NextDurable]_vars

\* one caller, whose calls may be inside a Database.transaction block
NextTransaction ==
    \/ Lifecycle(1)
    \/ Index(1)
    \/ TransactionEnter(1)
    \/ \E body_raised \in BOOLEAN : TransactionExit(1, body_raised)

SpecTransaction == Init /\ [][NextTransaction]_vars

\* record_workflow called with the long prompt
LongInput ==
    [user_id |-> 1, category |-> "linkedin", intent_type |-> "message",
     original_prompt |-> PromptLong, summary |-> <<"done">>,
     steps |-> StepsA, parameters |-> <<>>, is_template |-> FALSE, rating |-> 5]

\* one caller, one call at a time: recording and finding workflows, with
\* short and long prompts
NextKeywords ==
    \/ \E input \in WorkflowInputs \cup {LongInput} : RecordWorkflowInsert(1, input)
    \/ \E embedder_ok \in BOOLEAN : RecordWorkflowEmbed(1, embedder_ok)
    \/ \E user_id \in Users, prompt \in Prompts \cup {PromptLong}, limit \in {1, 2} :
            FindSimilarWorkflows(user_id, prompt, NoCategory, limit, TRUE)
    \/ Resume

SpecKeywords == Init /\ [][NextKeywords]_vars

\* the keyword extractor, applied to one text any number of times
NextExtract ==
    \/ /\ last = NoLast
       /\ \E text \in Texts, max_keywords \in KeywordLimits :
             ExtractKeywords(text, max_keywords)
    \/ ExtractAgain

SpecExtract == Init /\ [][NextExtract]_vars

\* one caller, one call at a time: the statistics lifecycle
NextSeq == Lifecycle(1)

SpecSeq == Init /\ [][NextSeq]_vars

\* one caller, one call at a time: recording, indexing and retrieval
NextRetrieval ==
    \/ \E input \in WorkflowInputs : RecordWorkflowInsert(1, input)
    \/ \E embedder_ok \in BOOLEAN : RecordWorkflowEmbed(1, embedder_ok)
    \/ Index(1)
    \/ Retrieval

SpecRetrieval == Init /\ [][NextRetrieval]_vars

\* concurrent callers of the repository
Next == \E p \in Procs : Lifecycle(p)

Spec == Init /\ [][Next]_vars

\* the store starts or stops failing writes
StoreFaults ==
    /\ answers' \in StoreResults \ {answers}
    /\ UNCHANGED <<workflows, executions, embeddings, pc, call, loc, last, applied,
                   lastStored, ncalls, conn, coreVars>>

\* one caller, one call at a time, over a store that may fail writes
NextFaults ==
    \/ Lifecycle(1)
    \/ Index(1)
    \/ StoreFaults

SpecFaults == Init /\ [][NextFaults]_vars

IntentTypes == {"connection_request", "message"}

\* the queries: get_best_workflow with every argument, and one retrieval call
\* of each kind
Probes ==
    \/ \E user_id \in Users, intent_type \in IntentTypes,
          category \in Categories \cup {NoCategory} :
            GetBestWorkflow(user_id, intent_type, category)
    \/ FindSimilarWorkflows(1, PromptConnect, NoCategory, 2, TRUE)
    \/ SearchSimilar(PromptConnect, "workflows", 2, DefaultThreshold, TRUE)
    \/ HybridSearch(PromptConnect, "workflows", 2, 6, 4, TRUE)
    \/ Resume

\* one caller, one call at a time: every operation of the repository and of
\* the embedding index
NextAll ==
    \/ Lifecycle(1)
    \/ Index(1)
    \/ CleanupOrphanedEmbeddings(1)
    \/ Probes

SpecAll == Init /\ [][NextAll]_vars

----------------------------------------------------------------------------
(* Specifications of the task manager *)

\* every method of the AsyncTaskManager, in every interleaving
NextManager ==
    \/ \E max_concurrent \in Concurrencies : AsyncTaskManagerInit(max_concurrent)
    \/ Start
    \/ Stop
    \/ CreateTask
    \/ WorkerGet
    \/ WorkerAcquire
    \/ \E raised \in BOOLEAN : WorkerCompletes(raised)
    \/ RunTask
    \/ \E t \in TaskIds : RunTaskAcquire(t)
    \/ \E t \in TaskIds, raised \in BOOLEAN : RunTaskCompletes(t, raised)
    \/ \E t \in TaskIds : CancelTask(t)

SpecManager == Init /\ [][NextManager]_vars

\* a manager that is started and left running, whose tasks nobody cancels
NextWorker ==
    \/ \E max_concurrent \in Concurrencies : AsyncTaskManagerInit(max_concurrent)
    \/ Start
    \/ CreateTask
    \/ WorkerGet
    \/ WorkerAcquire
    \/ \E raised \in BOOLEAN : WorkerCompletes(raised)
    \/ RunTask
    \/ \E t \in TaskIds : RunTaskAcquire(t)
    \/ \E t \in TaskIds, raised \in BOOLEAN : RunTaskCompletes(t, raised)

\* the event loop runs every coroutine that is ready, and every awaited
\* coroutine ends
SpecWorker ==
    /\ Init
    /\ [][NextWorker]_vars
    /\ WF_vars(Start)
    /\ WF_vars(WorkerGet)
    /\ WF_vars(WorkerAcquire)
    /\ WF_vars(\E raised \in BOOLEAN : WorkerCompletes(raised))
    /\ WF_vars(\E t \in TaskIds : RunTaskAcquire(t))
    /\ WF_vars(\E t \in TaskIds, raised \in BOOLEAN : RunTaskCompletes(t, raised))

----------------------------------------------------------------------------
(* Specification of the orchestrator *)

\* the step of a task's list that raises when no send_progress is given
Failings == 0..3

\* messages processed concurrently, with and without a progress callback,
\* cancel_task at every suspension, over a store and an embedder that may fail
NextOrchestrator ==
    \/ \E enable_learning \in BOOLEAN : OrchestratorInit(enable_learning)
    \/ \E m \in Procs, user_id \in Users, message \in Messages,
          send_progress \in BOOLEAN, embedder_ok \in BOOLEAN, failing \in Failings :
          ProcessMessage(m, user_id, message, send_progress, embedder_ok, failing)
    \/ \E m \in Procs, progress_raised \in BOOLEAN, raised \in BOOLEAN :
          ExecuteStep(m, progress_raised, raised)
    \/ \E m \in Procs : LearnInsert(m)
    \/ \E m \in Procs, embedder_ok \in BOOLEAN : LearnEmbed(m, embedder_ok)
    \/ \E t \in TaskIds : OrchestratorCancelTask(t)
    \/ StoreFaults

SpecOrchestrator == Init /\ [][NextOrchestrator]_vars

----------------------------------------------------------------------------
(* Specification of the sender *)

\* callers and the worker send to the chats while time passes
NextSender ==
    \/ \E rate_limit_delay \in Delays : AsyncSenderInit(rate_limit_delay)
    \/ Tick
    \/ AsyncSenderStart
    \/ \E m \in Procs, chat_id \in Chats : Send(m, chat_id)
    \/ \E chat_id \in Chats : SendQueued(chat_id)
    \/ WorkerSend
    \/ \E m \in Senders : Wake(m)
    \/ WorkerResume

SpecSender == Init /\ [][NextSender]_vars

----------------------------------------------------------------------------
(* Specification of the rate limiter *)

\* a limiter is made and allow is called at non-decreasing times
NextLimiter ==
    \/ \E max_calls \in Quotas, period \in Periods : RateLimiterInit(max_calls, period)
    \/ \E elapsed \in Elapsed : Allow(elapsed)

SpecLimiter == Init /\ [][NextLimiter]_vars

----------------------------------------------------------------------------
(* Specification of the state manager *)

NextState ==
    \/ \E max_history \in MaxHistories : StateManagerInit(max_history)
    \/ \E user_id \in Users : AddMessage(user_id)
    \/ \E user_id \in Users, task_id \in TaskNames : SetTask(user_id, task_id)
    \/ \E user_id \in Users, limit \in HistoryLimits : GetHistory(user_id, limit)
    \/ \E user_id \in Users, preferences \in Preferences :
          UpdatePreferences(user_id, preferences)
    \/ \E user_id \in Users : ClearContext(user_id)

SpecState == Init /\ [][NextState]_vars

----------------------------------------------------------------------------
(* Properties of the statistics lifecycle *)

Quiescent == \A p \in Procs : pc[p] = "idle"

\* a / b = c / d for fractions <<a, b>> and <<c, d>>
SameRate(x, y) == x[1] * y[2] = y[1] * x[2]

Counted(w) ==
    /\ workflows[w].total_count = 1 + applied[w].n
    /\ workflows[w].success_count = 1 + applied[w].k

\* C1: once every concurrent update_workflow_success / terminal
\* record_execution call has returned, each workflow's total_count is its
\* initial 1 plus the number of those calls and its success_count is 1 plus
\* the number of successful ones: no update is lost.
C1_NoLostUpdate ==
    Quiescent => \A w \in WorkflowIdsInStore : Counted(w)

C3_FreshWorkflow ==
    last.op = "record_workflow" =>
        /\ last.workflow_id \in WorkflowIdsInStore
        /\ workflows[last.workflow_id].total_count = 1
        /\ workflows[last.workflow_id].success_count = 1
        /\ SameRate(workflows[last.workflow_id].success_rate, <<1, 1>>)

\* record_workflow has returned the id of a second workflow, after the first
\* one has been updated
C3_Witness ==
    /\ last.op = "record_workflow"
    /\ last.outcome = "ok"
    /\ last.value = 2
    /\ workflows[1].total_count = 2

\* C4: in every reachable state, under any interleaving, every workflow row
\* has total_count >= 1, 0 <= success_count <= total_count and
\* success_rate = success_count / total_count.
C4_CounterInvariant ==
    \A w \in WorkflowIdsInStore :
        /\ workflows[w].total_count >= 1
        /\ 0 <= workflows[w].success_count
        /\ workflows[w].success_count <= workflows[w].total_count
        /\ SameRate(workflows[w].success_rate,
                    <<workflows[w].success_count, workflows[w].total_count>>)

\* two interleaved updates of one workflow have returned and one of them was
\* overwritten by the other; the row holds a failure
C4_Witness ==
    /\ Quiescent
    /\ \E w \in WorkflowIdsInStore :
          /\ applied[w].n = 2
          /\ workflows[w].total_count = 2
          /\ workflows[w].success_count < workflows[w].total_count

\* the call a step starts: the one of the coroutine that leaves "idle", or
\* the one that has started and returned within the step
StartedCall ==
    IF \E p \in Procs : pc[p] = "idle" /\ pc'[p] # "idle"
    THEN LET p == CHOOSE q \in Procs : pc[q] = "idle" /\ pc'[q] # "idle"
         IN [op |-> call'[p].op, workflow_id |-> call'[p].workflow_id]
    ELSE [op |-> last'.op, workflow_id |-> last'.workflow_id]

\* C8: update_workflow_success and record_execution called with a
\* workflow_id that does not exist return without raising and leave the
\* workflow rows and the execution rows as they were.
C8_UnknownWorkflowNoOp ==
    [][(/\ ncalls' = ncalls + 1
        /\ StartedCall.op \in {"update_workflow_success", "record_execution"}
        /\ StartedCall.workflow_id \notin WorkflowIdsInStore)
       => (/\ workflows' = workflows
           /\ executions' = executions
           /\ last'.outcome # "error")]_vars

Counters(row) == <<row.success_count, row.total_count, row.success_rate>>

\* C10: a workflow's counters change only in the statistics update of a call
\* that names that workflow, a record_execution call that reaches it has a
\* terminal status, and a record_execution with a non-terminal status
\* appends its row and changes no workflow.
C10_OnlyTerminalExecutionsCount ==
    [][/\ \A w \in WorkflowIdsInStore :
            Counters(workflows'[w]) # Counters(workflows[w]) =>
                \E p \in Procs :
                    /\ pc[p] \in {"uws_update", "re_update"}
                    /\ pc'[p] # pc[p]
                    /\ call[p].workflow_id = w
                    /\ call[p].op = "record_execution"
                          => call[p].status \in TerminalStatuses
       /\ Len(executions') > Len(executions) =>
            LET row == executions'[Len(executions')]
            IN row.status \notin TerminalStatuses =>
                  /\ workflows' = workflows
                  /\ pc' = pc
                  /\ last'.op = "record_execution"
                  /\ last'.outcome = "ok"]_vars

\* a pending and a failed execution of the same workflow are recorded and
\* only the failed one is counted, while another workflow is untouched
C10_Witness ==
    /\ Quiescent
    /\ \E i, j \in DOMAIN executions :
          /\ executions[i].status = "pending"
          /\ executions[j].status = "failed"
          /\ executions[i].workflow_id = executions[j].workflow_id
          /\ executions[i].workflow_id \in WorkflowIdsInStore
          /\ workflows[executions[i].workflow_id].total_count = 2
          /\ workflows[executions[i].workflow_id].success_count = 1

\* C11: a workflow's steps change only in the UPDATE of an
\* update_workflow_success call that was given replacement steps; no step of
\* a record_execution call writes them.
C11_StepsChangeOnlyOnReplacement ==
    [][\A w \in WorkflowIdsInStore :
          workflows'[w].steps # workflows[w].steps =>
              \E p \in Procs :
                  /\ pc[p] = "uws_update"
                  /\ pc'[p] = "idle"
                  /\ call[p].op = "update_workflow_success"
                  /\ call[p].workflow_id = w
                  /\ call[p].new_steps # <<>>]_vars

\* a step issues a write statement of record_workflow, update_workflow_success,
\* record_execution or store_embedding: it resumes a coroutine suspended
\* before one, or starts a call that begins with one
WriteIssued ==
    \/ \E p \in Procs :
          /\ pc[p] \in {"rw_embed", "uws_update", "re_update", "re_complete"}
          /\ pc'[p] # pc[p]
    \/ /\ ncalls' = ncalls + 1
       /\ StartedCall.op \in {"record_workflow", "record_execution", "store_embedding"}

\* C17: a write of record_workflow, update_workflow_success, record_execution
\* or store_embedding that the store fails ends the call in an error, leaves
\* the tables as they were, and was issued exactly once.
C17_WriteFailureReportedOnce ==
    [][(WriteIssued /\ ~answers[1]) =>
          /\ \A p \in Procs : pc'[p] = "idle"
          /\ last'.outcome = "error"
          /\ last'.value = "StoreError" => last'.attempts = 1
          /\ workflows' = workflows
          /\ executions' = executions
          /\ embeddings' = embeddings]_vars

\* record_execution has inserted its row and the store has then failed its
\* update of the workflow
C17_Witness ==
    /\ last.op = "record_execution"
    /\ last.outcome = "error"
    /\ last.value = "StoreError"
    /\ ncalls = 2
    /\ Len(workflows) = 1
    /\ Len(executions) = 1
    /\ executions[1].workflow_id = 1
    /\ executions[1].status = "failed"
    /\ workflows[1].total_count = 1

\* a step is the UPDATE of a statistics update of workflow w
StatisticsUpdateOf(w) ==
    \E p \in Procs :
        /\ pc[p] \in {"uws_update", "re_update"}
        /\ pc'[p] # pc[p]
        /\ call[p].workflow_id = w

Candidates ==
    {w \in WorkflowIdsInStore :
        /\ workflows[w].user_id = last.user_id
        /\ workflows[w].intent_type = last.intent_type
        /\ last.category # NoCategory => workflows[w].category = last.category}

\* the (success_rate, success_count) pair of a is lexicographically greater
\* than that of b
PairGreater(a, b) ==
    LET ra == a.success_rate
        rb == b.success_rate
    IN \/ ra[1] * rb[2] > rb[1] * ra[2]
       \/ /\ ra[1] * rb[2] = rb[1] * ra[2]
          /\ a.success_count > b.success_count

\* C19: get_best_workflow returns None exactly when the owner has no workflow
\* of the intent type (and category, when given); otherwise it returns one of
\* those workflows, and none of them has a lexicographically greater
\* (success_rate, success_count) pair.
C19_BestWorkflow ==
    last.op = "get_best_workflow" =>
        /\ last.value = NULL <=> Candidates = {}
        /\ Candidates # {} =>
              \E w \in Candidates :
                 /\ last.value = RowToWorkflow(workflows[w])
                 /\ \A v \in Candidates : ~PairGreater(workflows[v], workflows[w])

\* the call had two candidates of equal success_rate and returned the later
\* one, which has the greater success_count
C19_Witness ==
    /\ last.op = "get_best_workflow"
    /\ Candidates = {1, 2}
    /\ workflows[1].success_rate[1] * workflows[2].success_rate[2]
          = workflows[2].success_rate[1] * workflows[1].success_rate[2]
    /\ workflows[2].success_count > workflows[1].success_count
    /\ last.value.id = 2

----------------------------------------------------------------------------
(* Properties of indexing and retrieval *)

\* C5: the list find_similar_workflows returns holds no workflow id twice
\* and is at most limit long.
C5_NoDuplicateWithinLimit ==
    (last.op = "find_similar_workflows" /\ last.outcome = "ok") =>
        /\ Len(last.value) <= last.limit
        /\ \A i, j \in DOMAIN last.value :
              i # j => last.value[i].id # last.value[j].id

\* a call with limit 2 has returned two workflows, both from the semantic phase
C5_Witness ==
    /\ last.op = "find_similar_workflows"
    /\ last.outcome = "ok"
    /\ last.limit = 2
    /\ last.embedded
    /\ Len(last.value) = 2

\* the stored keyword set of a workflow intersects the keywords of the prompt
KeywordMatch(workflow_id, prompt) ==
    Range(workflows[workflow_id].keywords)
        \cap Range(extract(prompt, ManagerMaxKeywords)) # {}

\* the workflows that match in the lexical phase of the call in `last`
LexicalMatches == {w \in Range(last.fetched) : KeywordMatch(w, last.prompt)}

\* C6: when workflows match in the lexical phase, find_similar_workflows
\* returns a list in which they come before every workflow that only the
\* semantic phase added.
C6_LexicalFirst ==
    (last.op = "find_similar_workflows" /\ last.limit >= 1 /\ LexicalMatches # {}) =>
        /\ last.outcome = "ok"
        /\ \E i \in DOMAIN last.value : last.value[i].id \in LexicalMatches
        /\ \A i, j \in DOMAIN last.value :
              (last.value[i].id \in LexicalMatches
                  /\ last.value[j].id \notin LexicalMatches) => i < j

RowsOfKey(k) == {r \in embeddings : EmbeddingKey(r) = k}

\* C7: the embeddings table holds at most one record per (content_id,
\* table_name), present exactly when the latest completed call for the key
\* was a store, and carrying that store's text, vector and metadata (no
\* metadata when the call gave none or an empty map).
C7_UpsertKeepsLatest ==
    \A k \in EmbeddingKeys :
        /\ Cardinality(RowsOfKey(k)) <= 1
        /\ lastStored[k].stored <=> RowsOfKey(k) # {}
        /\ \A r \in RowsOfKey(k) :
              /\ r.content = lastStored[k].content
              /\ Unpickle(r.embedding) =
                    IF lastStored[k].embedding = NoVector
                    THEN embed_text(lastStored[k].content)
                    ELSE lastStored[k].embedding
              /\ r.metadata =
                    IF lastStored[k].metadata \in {NoMetadata, Metadata(<<>>)}
                    THEN NULL
                    ELSE JsonDumps(lastStored[k].metadata.map)

\* a key stored twice holds one record, the second store's
C7_Witness ==
    \E k \in EmbeddingKeys :
        /\ lastStored[k].writes = 2
        /\ Cardinality(RowsOfKey(k)) = 1
        /\ \E r \in RowsOfKey(k) : r.content = PromptConnect /\ Unpickle(r.embedding) = 2

\* C9: a retrieval call whose embedder fails ends in an error.
C9_EmbedderFailureIsAnError ==
    (last.op \in RetrievalOps /\ last.embedded /\ ~last.embedder_ok) =>
        last.outcome = "error"

\* the embedder has failed in the semantic phase of find_similar_workflows
\* while the index holds an embedding of a workflow
C9_Witness ==
    /\ last.op = "find_similar_workflows"
    /\ last.embedded
    /\ ~last.embedder_ok
    /\ last.outcome = "error"
    /\ \E r \in embeddings : r.table_name = "workflows" /\ r.content_id \in WorkflowIdsInStore

\* the similarity of embeddings row e to the query of the call in `last`
SimilarityToQuery(e) == Similarity(e.embedding, Pickle(embed_text(last.query)))

\* the embeddings row a returned record was read from
SourceRows(r) ==
    {e \in embeddings : e.content_id = r.content_id /\ e.content = r.content
                        /\ SimilarityToQuery(e) = r.similarity}

\* C12: search_similar returns only records of the table asked for with
\* similarity >= threshold, at most limit of them, by similarity descending
\* and, at equal similarity, by content_id ascending; and it leaves out no
\* record that reaches the threshold while returning one of lower similarity.
C12_SearchSimilarRanked ==
    (last.op = "search_similar" /\ last.outcome = "ok") =>
        /\ Len(last.value) <= last.limit
        /\ \A i \in DOMAIN last.value :
              /\ last.value[i].similarity >= last.threshold
              /\ \E e \in SourceRows(last.value[i]) : e.table_name = last.table_name
        /\ \A i, j \in DOMAIN last.value :
              i < j => \/ last.value[i].similarity > last.value[j].similarity
                       \/ /\ last.value[i].similarity = last.value[j].similarity
                          /\ last.value[i].content_id < last.value[j].content_id
        /\ \A e \in embeddings :
              (/\ e.table_name = last.table_name
               /\ SimilarityToQuery(e) >= last.threshold
               /\ \A i \in DOMAIN last.value : last.value[i].content_id # e.content_id)
              => \A i \in DOMAIN last.value :
                    last.value[i].similarity >= SimilarityToQuery(e)

\* C13: hybrid_search returns each content_id at most once, with
\* combined_score = semantic_score * semantic_weight + keyword_score *
\* keyword_weight (a score being 0 for an id its phase did not return), by
\* combined_score descending and, at equal score, by content_id ascending,
\* and at most limit entries.
C13_HybridRanked ==
    (last.op = "hybrid_search" /\ last.outcome = "ok") =>
        /\ Len(last.value) <= last.limit
        /\ \A i, j \in DOMAIN last.value :
              i # j => last.value[i].content_id # last.value[j].content_id
        /\ \A i \in DOMAIN last.value :
              LET x == last.value[i]
              IN /\ x.combined_score = x.semantic_score * last.semantic_weight
                                       + x.keyword_score * last.keyword_weight
                 /\ \/ x.semantic_score = 0
                    \/ \E e \in embeddings :
                          /\ e.table_name = last.table_name
                          /\ e.content_id = x.content_id
                          /\ SimilarityToQuery(e) = x.semantic_score
        /\ \A i, j \in DOMAIN last.value :
              i < j => \/ last.value[i].combined_score > last.value[j].combined_score
                       \/ /\ last.value[i].combined_score = last.value[j].combined_score
                          /\ last.value[i].content_id < last.value[j].content_id

ContentIds(results) == [i \in DOMAIN results |-> results[i].content_id]

\* C14: hybrid_search with semantic_weight 1 and keyword_weight 0 returns the
\* content ids, in the order, that search_similar returns for the same query,
\* table and limit over the same corpus.
C14_SemanticOnlyHybridIsSearch ==
    (/\ last.op = "hybrid_search"
     /\ last.outcome = "ok"
     /\ last.semantic_weight = 10
     /\ last.keyword_weight = 0)
    => ContentIds(last.value) \in
          {ContentIds(v) : v \in SimilarLists(last.query, last.table_name, last.limit,
                                               DefaultThreshold)}

\* C15: find_similar_workflows calls the semantic search, and so the
\* embedder, only when the lexical phase kept fewer than limit workflows;
\* when it kept limit or more, the embedder is not called and the list holds
\* lexical matches only.
C15_SemanticOnlyWhenLexicalShort ==
    last.op = "find_similar_workflows" =>
        /\ last.embedded => last.lexical < last.limit
        /\ (last.outcome = "ok" /\ last.lexical >= last.limit) =>
              /\ ~last.embedded
              /\ \A i \in DOMAIN last.value : last.value[i].id \in LexicalMatches

\* with embeddings of workflows in the index, a call whose lexical phase has
\* reached its limit returns a list although its embedder would have failed
C15_Witness ==
    /\ last.op = "find_similar_workflows"
    /\ \E r \in embeddings : r.table_name = "workflows" /\ r.content_id \in WorkflowIdsInStore
    /\ last.lexical >= last.limit
    /\ ~last.embedder_ok
    /\ ~last.embedded
    /\ last.outcome = "ok"

\* the ids the lexical phase of the call in `last` is to keep: the fetched
\* workflows whose keywords meet those of the prompt, in fetch order
ExpectedLexical ==
    SelectSeq(last.fetched, LAMBDA w : KeywordMatch(w, last.prompt))

\* C16: the lexical part of a find_similar_workflows result is exactly the
\* workflows, among the first 2 * limit of the caller's workflows (of the
\* category, when one is given) by success_rate, success_count and rating
\* descending, whose stored keywords meet the keywords of the prompt, in
\* fetch order.
C16_LexicalPart ==
    last.op = "find_similar_workflows" =>
        /\ \E rows \in LexicalFetches(last.user_id, last.category, last.limit) :
              last.fetched = [i \in DOMAIN rows |-> rows[i].id]
        /\ last.lexical = Len(ExpectedLexical)
        /\ last.outcome = "ok" =>
              [i \in 1 .. Min(last.lexical, last.limit) |-> last.value[i].id]
                  = Prefix(ExpectedLexical, last.limit)

\* the keyword lists of the workflow rows hold at most 15 keywords
IndexedKeywordsBounded ==
    \A w \in WorkflowIdsInStore : Len(workflows[w].keywords) <= 15

\* C22: find_similar_workflows extracts at most 10 keywords from the prompt,
\* and record_workflow stores at most 15 keywords of the original prompt.
C22_KeywordLimits ==
    /\ last.op = "find_similar_workflows" => Len(last.keywords) <= 10
    /\ IndexedKeywordsBounded

\* the entity an embedding record belongs to exists: its content_id is the id
\* of a row of the table its table_name names
OwnerExists(r) ==
    \/ r.table_name = "workflows" /\ r.content_id \in 1 .. Len(workflows)
    \/ r.table_name = ExecutionsTable /\ r.content_id \in 1 .. Len(executions)

\* a step is a cleanup_orphaned_embeddings call that returns
CleanupReturns ==
    /\ ncalls' = ncalls + 1
    /\ last'.op = "cleanup_orphaned_embeddings"
    /\ last'.outcome = "ok"

\* C23: cleanup_orphaned_embeddings leaves exactly the embedding records whose
\* owning entity exists, of whatever table, and leaves them unchanged.
C23_CleanupRemovesExactlyOrphans ==
    [][CleanupReturns => embeddings' = {r \in embeddings : OwnerExists(r)}]_vars

\* the part of C23 about workflows: no record of a missing workflow remains
\* and every record of an existing workflow is kept
C23_WorkflowPart ==
    [][CleanupReturns =>
          {r \in embeddings' : r.table_name = "workflows"}
              = {r \in embeddings : r.table_name = "workflows" /\ OwnerExists(r)}]_vars

\* the record_workflow call that inserted workflow w has ended
RecordEnded(w) ==
    \A p \in Procs : ~(call[p].op = "record_workflow" /\ loc[p].workflow_id = w)

\* the embedding records keyed by workflow w
EmbeddingsOf(w) == {r \in embeddings : EmbeddingKey(r) = <<w, "workflows">>}

\* C29: once the record_workflow call of a workflow has ended, however it
\* ended, the workflow row exists if and only if an embedding record keyed by
\* its id exists, holding the original prompt followed by the summary.
C29_RecordAllOrNothing ==
    /\ \A w \in WorkflowIdsInStore :
          RecordEnded(w) =>
             \E r \in EmbeddingsOf(w) :
                r.content = workflows[w].original_prompt \o workflows[w].summary
    /\ \A r \in embeddings :
          r.table_name = "workflows" => r.content_id \in WorkflowIdsInStore

\* the record_execution call that inserted execution e has returned
ExecutionRecorded(e) ==
    \A p \in Procs : ~(call[p].op = "record_execution" /\ loc[p].execution_id = e)

\* C30: once record_execution has returned, the execution row it recorded has
\* completed_at set if its status is completed or failed, and unset otherwise.
C30_CompletedAtIffTerminal ==
    \A e \in DOMAIN executions :
        ExecutionRecorded(e) =>
            (executions[e].completed_at <=> executions[e].status \in TerminalStatuses)

\* what the code does instead: once record_execution has returned, completed_at
\* is set exactly on the executions recorded as completed
C30_CompletedAtIffCompleted ==
    \A e \in DOMAIN executions :
        ExecutionRecorded(e) =>
            (executions[e].completed_at <=> executions[e].status = "completed")

\* C26: every workflow find_similar_workflows returns is owned by the user the
\* call names and, when the call names a category, is of that category.
C26_ResultsOfOwnerAndCategory ==
    (last.op = "find_similar_workflows" /\ last.outcome = "ok") =>
        \A i \in DOMAIN last.value :
            /\ last.value[i].user_id = last.user_id
            /\ last.category # NoCategory => last.value[i].category = last.category

\* C27: with a working store and a working embedder, find_similar_workflows
\* returns a list, whatever the store holds.
C27_FindReturnsAList ==
    (last.op = "find_similar_workflows" /\ last.embedder_ok /\ answers = StoreWorks) =>
        last.outcome = "ok"

\* the row the suspended store_embedding call of coroutine p is about to write
PendingRow(p) ==
    LET a == call[p].input
    IN EmbeddingRow(a.content_id, a.table_name, a.content, a.embedding, a.metadata)

ScopeEnds == conn.scope # 0 /\ conn'.scope = 0

\* C25: when the body of a transaction block completes, its writes are
\* committed at the end of the block and none of them before; when the body
\* raises, the tables are again as they were when the block was entered,
\* nothing of the block is committed, and the caller gets the exception.
C25_TransactionAtomic ==
    [][ScopeEnds =>
          IF last'.outcome = "ok"
          THEN /\ conn.disk = conn.entered
               /\ conn'.disk = Snapshot(workflows, executions, embeddings)
               /\ UNCHANGED <<workflows, executions, embeddings>>
          ELSE /\ Snapshot(workflows', executions', embeddings') = conn.entered
               /\ conn'.disk = conn.entered
               /\ last'.outcome = "error"]_vars

\* what holds of the code: the same, for the blocks in whose body no
\* statement was committed
C25_AtomicUnlessBodyCommits ==
    [][(ScopeEnds /\ conn.disk = conn.entered) =>
          IF last'.outcome = "ok"
          THEN /\ conn'.disk = Snapshot(workflows, executions, embeddings)
               /\ UNCHANGED <<workflows, executions, embeddings>>
          ELSE /\ Snapshot(workflows', executions', embeddings') = conn.entered
               /\ conn'.disk = conn.entered
               /\ last'.outcome = "error"]_vars

\* C28: when update_workflow_success, record_execution or store_embedding has
\* returned and the connection is closed with no call in between, the tables
\* are afterwards as the call left them.
C28_ReturnedWritesAreCommitted ==
    [][(/\ last'.op = "close"
        /\ last.op \in {"update_workflow_success", "record_execution", "store_embedding"}
        /\ last.outcome = "ok") =>
          UNCHANGED <<workflows, executions, embeddings>>]_vars

\* what holds of the code: the rows record_workflow and record_execution
\* insert outlast a close
C28_InsertedRowsAreCommitted ==
    [][last'.op = "close" =>
          /\ Len(workflows') = Len(workflows)
          /\ Len(executions') = Len(executions)]_vars

----------------------------------------------------------------------------
(* Properties of the keyword extractor *)

\* the tokens of the vocabulary that hold an upper-case letter
UpperCased == {"Connect", "The", "PM"}

\* C20: extract returns at most max_keywords tokens, all distinct, all
\* lower-case, none a stop word and none shorter than 3 characters; a second
\* call with the same text returns the same list, and no call changes the
\* store.
C20_ExtractResult ==
    [][last'.op = "extract" =>
          LET keywords == last'.value
          IN /\ Len(keywords) <= last'.max_keywords
             /\ \A i, j \in DOMAIN keywords : i # j => keywords[i] # keywords[j]
             /\ \A i \in DOMAIN keywords :
                   /\ keywords[i] \notin UpperCased
                   /\ keywords[i] \notin STOPWORDS
                   /\ Len(keywords[i]) >= 3
             /\ last.op = "extract" => keywords = last.value
             /\ UNCHANGED <<workflows, executions, embeddings>>]_vars

\* a text with a capitalised stop word and a keyword written in two cases has
\* been extracted twice with max_keywords 1: of its two keywords, the more
\* frequent one is returned
C20_Witness ==
    /\ last.op = "extract"
    /\ ncalls = 2
    /\ last.text = <<"The", "message", "Connect", "connect">>
    /\ last.max_keywords = 1
    /\ last.value = <<"connect">>

\* the tokens of the extracted text in lower case
LoweredText == [i \in DOMAIN last.text |-> Lower(last.text[i])]

\* the tokens that qualify as keywords of the extracted text
Qualifying ==
    {w \in Range(LoweredText) :
        w \notin NonAlphabetic /\ w \notin STOPWORDS /\ Len(w) >= 3}

Frequency(w) == Cardinality({i \in DOMAIN LoweredText : LoweredText[i] = w})

FirstOccurrence(w) ==
    CHOOSE i \in DOMAIN LoweredText :
        /\ LoweredText[i] = w
        /\ \A j \in DOMAIN LoweredText : LoweredText[j] = w => i <= j

\* token a is ranked before token b: it is more frequent, or as frequent and
\* first seen earlier
RankedBefore(a, b) ==
    \/ Frequency(a) > Frequency(b)
    \/ Frequency(a) = Frequency(b) /\ FirstOccurrence(a) < FirstOccurrence(b)

\* C21: the result of extract lists qualifying tokens by frequency descending,
\* equal frequencies by first occurrence, and is the first max_keywords
\* tokens of that order: every qualifying token it leaves out ranks after
\* every token it returns, and it leaves none out while it has room.
C21_ExtractRanked ==
    last.op = "extract" =>
        LET keywords == last.value
        IN /\ Range(keywords) \subseteq Qualifying
           /\ \A i, j \in DOMAIN keywords : i < j => RankedBefore(keywords[i], keywords[j])
           /\ \A w \in Qualifying \ Range(keywords) :
                 \A i \in DOMAIN keywords : RankedBefore(keywords[i], w)
           /\ Len(keywords) = Min(last.max_keywords, Cardinality(Qualifying))

\* of three keywords, the one seen last is the most frequent and is returned
\* first; of the two others, seen once each, the earlier is kept and the
\* later is cut off
C21_Witness ==
    /\ last.op = "extract"
    /\ last.text = <<"message", "founder", "Connect", "connect">>
    /\ last.max_keywords = 2
    /\ last.value = <<"connect", "message">>
----------------------------------------------------------------------------
(* Properties of the task manager *)

PendingInQueue(t) ==
    /\ manager.constructed
    /\ manager.running
    /\ manager.origin[t] = "create_task"

CoroutineFinished(t) ==
    /\ manager.constructed
    /\ manager.coro[t] \in {"returned", "raised"}

StatusOfOutcome(t) ==
    /\ manager.coro[t] = "returned" => manager.tasks[t].status = "completed"
    /\ manager.coro[t] = "raised" => manager.tasks[t].status = "failed"

\* C31: every task queued with create_task while the worker is running
\* eventually has a finished coroutine and then the status COMPLETED (the
\* coroutine returned) or FAILED (it raised), when the worker is scheduled
\* fairly
C31_QueuedTaskLeavesPending ==
    \A t \in TaskIds :
        [](PendingInQueue(t) => <>(CoroutineFinished(t) /\ StatusOfOutcome(t)))

\* the worker does run every queued coroutine to its end
C31_QueuedCoroutineFinishes ==
    \A t \in TaskIds : [](PendingInQueue(t) => <>CoroutineFinished(t))

\* a step leaves every task whose status is one of statuses as it is
StatusesStay(statuses) ==
    manager.constructed =>
        \A t \in TaskIds :
            manager.tasks[t].status \in statuses => manager'.tasks[t] = manager.tasks[t]

\* C32: COMPLETED, FAILED and CANCELLED are final: neither cancel_task on a
\* finished task nor the end of the coroutine of a cancelled run_task changes
\* the status of the task
C32_FinalStatusesAreFinal ==
    [][StatusesStay({"completed", "failed", "cancelled"})]_vars

\* the coroutines that are being executed
Executing == {t \in TaskIds : manager.coro[t] = "running"}

\* C33: the coroutines executed through run_task and the queue worker
\* together are never more than max_concurrent, and every permit taken is
\* given back on every exit (return, exception, cancellation of the worker):
\* the permits left are max_concurrent less the coroutines being executed
C33_PermitsBoundExecution ==
    manager.constructed =>
        /\ Cardinality(Executing) <= manager.max_concurrent
        /\ manager.semaphore = manager.max_concurrent - Cardinality(Executing)

\* no coroutine is being executed and every permit is back, after one
\* coroutine has returned, one has raised and one has ended by the
\* cancellation of the worker
C33_Witness ==
    /\ manager.constructed
    /\ Executing = {}
    /\ manager.semaphore = manager.max_concurrent
    /\ \E t \in TaskIds : manager.coro[t] = "returned"
    /\ \E t \in TaskIds : manager.coro[t] = "raised"
    /\ \E t \in TaskIds : manager.coro[t] = "cancelled"

----------------------------------------------------------------------------
(* Properties of the orchestrator *)

\* C34: once cancel_task has returned True for a task, the status of the
\* task stays CANCELLED and no further step of the task is executed,
\* wherever cancel_task falls between the suspensions of _execute_task
C34_CancelledTaskStops ==
    [][orchestrator.constructed =>
          \A t \in TaskIds :
              orchestrator.cancelled[t] =>
                  /\ orchestrator'.tasks[t].status = "cancelled"
                  /\ orchestrator'.executed[t] = orchestrator.executed[t]]_vars

\* the tasks process_message has created
CreatedTasks == {t \in TaskIds : orchestrator.tasks[t] # NoOrchestratorTask}

\* the tasks _execute_task has ended
EndedTasks == {t \in CreatedTasks : orchestrator.tasks[t].result # NULL}

\* the steps executed and the results recorded are those of steps 0, 1, ...
\* in order, and only the last of them may have failed
InOrderUntilFailure(executed, step_results) ==
    /\ Len(step_results) = Len(executed)
    /\ \A k \in DOMAIN executed : executed[k] = k - 1 /\ step_results[k].step = k - 1
    /\ \A k \in DOMAIN step_results : k < Len(step_results) => step_results[k].success

\* C35: _execute_task executes the steps of a task in order and stops at the
\* first step that fails: no step is executed after a failed one, a task
\* ends FAILED with step_results covering the steps up to the failed one, and
\* COMPLETED only with every step executed and successful
C35_StepsInOrderUntilFailure ==
    orchestrator.constructed =>
        /\ \A m \in Procs :
              orchestrator.coroutine[m].pc = "progress" =>
                  /\ InOrderUntilFailure(
                         orchestrator.executed[orchestrator.coroutine[m].task_id],
                         orchestrator.coroutine[m].step_results)
                  /\ AllSuccessful(orchestrator.coroutine[m].step_results)
        /\ \A t \in EndedTasks :
              LET task == orchestrator.tasks[t]
                  r == task.result.step_results
              IN /\ InOrderUntilFailure(orchestrator.executed[t], r)
                 /\ Len(r) >= 1
                 /\ task.status \in {"completed", "failed"}
                 /\ task.status = "failed" <=> ~r[Len(r)].success
                 /\ task.status = "completed" =>
                        Len(r) = Len(task.steps) /\ AllSuccessful(r)

\* a task of three steps whose second step has failed:
\* it is FAILED with two results, and its third step was not executed
C35_Witness ==
    /\ orchestrator.constructed
    /\ \E t \in EndedTasks :
          /\ Len(orchestrator.tasks[t].steps) = 3
          /\ orchestrator.tasks[t].status = "failed"
          /\ orchestrator.executed[t] = <<0, 1>>
          /\ Len(orchestrator.tasks[t].result.step_results) = 2
          /\ orchestrator.tasks[t].result.step_results[1].success
          /\ ~orchestrator.tasks[t].result.step_results[2].success

\* the process_message calls that have returned or raised
DoneMessages == {m \in Procs : orchestrator.coroutine[m].pc = "done"}

\* every step of task t has been executed and has succeeded
EveryStepSucceeded(t) ==
    /\ t \in EndedTasks
    /\ Len(orchestrator.tasks[t].result.step_results) = Len(orchestrator.tasks[t].steps)
    /\ AllSuccessful(orchestrator.tasks[t].result.step_results)

\* C36: process_message adds a workflow row for a message only when
\* learning is enabled and every step of the message's task has succeeded (a
\* failed task and a disabled learning flag add none), and it returns a text
\* and raises nothing, whether the task, the retrieval or the learning fails
C36_LearnsOnlyFromSuccess ==
    [][orchestrator.constructed =>
          /\ Len(workflows') > Len(workflows) =>
                /\ orchestrator.enable_learning
                /\ \E m \in Procs :
                      /\ orchestrator.coroutine[m].pc = "learn"
                      /\ orchestrator'.coroutine[m].pc # "learn"
                      /\ EveryStepSucceeded(orchestrator.coroutine[m].task_id)
                      /\ workflows'[Len(workflows')].original_prompt =
                            orchestrator.tasks[orchestrator.coroutine[m].task_id].original_prompt
          /\ \A m \in Procs :
                orchestrator'.coroutine[m].pc = "done" =>
                    /\ ~orchestrator'.coroutine[m].raised
                    /\ orchestrator'.coroutine[m].response
                           \in {ResponseCompleted, ResponseFailed, ResponseError}]_vars

\* one message has been learned from and its embedding failed, the other
\* message's task has failed and has left no row
C36_Witness ==
    /\ orchestrator.constructed
    /\ orchestrator.enable_learning
    /\ DoneMessages = Procs
    /\ Len(workflows) = 1
    /\ embeddings = {}
    /\ \E m \in Procs :
          /\ orchestrator.coroutine[m].response = ResponseCompleted
          /\ workflows[1].original_prompt =
                orchestrator.tasks[orchestrator.coroutine[m].task_id].original_prompt
    /\ \E m \in Procs :
          /\ orchestrator.coroutine[m].response = ResponseFailed
          /\ orchestrator.tasks[orchestrator.coroutine[m].task_id].status = "failed"
          /\ orchestrator.tasks[orchestrator.coroutine[m].task_id].original_prompt
                # workflows[1].original_prompt

----------------------------------------------------------------------------
(* Properties of the sender *)

\* C37: two messages to the same chat are never handed to the Telegram API
\* less than rate_limit_delay apart, however the calls that send to the chat
\* interleave
C37_RateLimitPerChat ==
    sender.constructed =>
        \A c \in Chats :
            \A i, j \in DOMAIN sender.handed[c] :
                i < j => sender.handed[c][j] - sender.handed[c][i] >= sender.rate_limit_delay

----------------------------------------------------------------------------
(* Properties of the rate limiter *)

\* the calls that returned True from the i-th of them on, less than period
\* after it
GrantedWithin(i) ==
    {k \in DOMAIN limiter.granted :
        k >= i /\ limiter.granted[k] - limiter.granted[i] < limiter.period}

\* C38: in any window shorter than period at most max_calls calls of allow
\* have returned True, and a call that is refused consumes no quota: it adds
\* nothing to the calls the limiter counts
C38_AtMostMaxCallsPerPeriod ==
    [][limiter.constructed =>
          /\ \A i \in DOMAIN limiter'.granted :
                Cardinality({k \in DOMAIN limiter'.granted :
                                k >= i /\ limiter'.granted[k] - limiter'.granted[i]
                                              < limiter'.period}) <= limiter'.max_calls
          /\ limiter'.result = FALSE =>
                /\ limiter'.granted = limiter.granted
                /\ limiter'.calls = Recent(limiter.calls, now', limiter.period)
                /\ Len(limiter'.calls) = limiter.max_calls]_vars

\* the latest call was refused with the quota of 2 used up, after an earlier
\* window had ended and its quota had been granted again
C38_Witness ==
    /\ limiter.constructed
    /\ limiter.max_calls = 2
    /\ Len(limiter.granted) = 4
    /\ limiter.result = FALSE
    /\ Cardinality(GrantedWithin(3)) = 2

----------------------------------------------------------------------------
(* Properties of the state manager *)

\* the last n elements of a sequence, all of them if it has fewer
LastOf(s, n) == SubSeq(s, Len(s) - Min(n, Len(s)) + 1, Len(s))

\* C39: every context holds at most max_history messages, the most recently
\* added ones in the order they were added, and get_history(limit) returns
\* the last min(limit, length) messages of the context
C39_HistoryBounded ==
    state_manager.constructed =>
        /\ \A u \in Users :
              LET context == state_manager.contexts[u]
              IN context.present =>
                    /\ Len(context.messages) <= state_manager.max_history
                    /\ context.messages =
                           LastOf(context.added, state_manager.max_history)
        /\ state_manager.op = "get_history" =>
              LET returned == state_manager.returned
                  messages == state_manager.contexts[returned.user_id].messages
              IN returned.messages =
                     LastOf(messages, Min(returned.limit, Len(messages)))

====
